---------------------------- MODULE Spec2Model ----------------------------
(***************************************************************************)
(* Model of the capture -> queue -> disk-writer pipeline of                *)
(* FrameCameraManager (src/src/frame_camera_manager.cpp) and of the lazy,  *)
(* prefetching frame cache of EventCameraLoader                            *)
(* (src/src/video_player_mockup.cpp), of the RecordingBuffer               *)
(* (src/unnamed/part_000), of the live event frame buffers of              *)
(* EventCameraManager (src/src/event_camera_manager.cpp), of the           *)
(* RecordingDataLoader (src/src/video_player_mockup.cpp) and of the        *)
(* RecordingManager (src/unnamed/part_000).                                *)
(*                                                                         *)
(* Each thread of the program is a process with a program counter; every   *)
(* action is one atomic step of the code (a step under one mutex, or one   *)
(* access to an atomic).  History variables (named h_...) record what      *)
(* happened, and are read only by the properties.                          *)
(***************************************************************************)
EXTENDS Integers, Sequences, FiniteSets, TLC

(***************************************************************************)
(* Bounds of the model.                                                    *)
(***************************************************************************)
\* FrameCameraManager::MAX_QUEUE_SIZE is 1000 in the source
\* (src/unnamed/part_011:64); the model keeps the name and scales the value.
MAX_QUEUE_SIZE == 2
\* number of frame cameras (m_devices.size())
NumDevices == 2
\* frames each camera delivers (hardware triggers received) in a run
MaxFrames == 2
\* number of recording sessions (startRecording() calls that start a writer)
MaxSessions == 2

\* RecordingBuffer::MAX_LIVE_BUFFER_SIZE is 500 and TARGET_BUFFER_SIZE is 100
\* in the source (src/include/player_window.h:220-221); the model scales them.
MAX_LIVE_BUFFER_SIZE == 3
TARGET_BUFFER_SIZE == 2
\* ticks of the live monitor thread in one live session
MaxTicks == 2
\* the frame indices RecordingBuffer::setCurrentFrameIndex is called with:
\* one the recording has a frame for, one past its end
IndexInputs == { 0, 2 }

\* EventCameraManager::MAX_EVENT_BUFFER_SIZE is 100 in the source
\* (src/include/event_camera_manager.h:112); the model scales it.
MAX_EVENT_BUFFER_SIZE == 2
\* event frames each streaming worker generates in one streaming session
MaxEventFrames == 4
\* number of startLiveStreaming() calls that start the workers
MaxStreamSessions == 2
\* bits of the unsigned type that stands for size_t (64 in the build): wide
\* enough that no counter of the model reaches 2^SizeBits by counting
SizeBits == 16
\* events the callback may add to one accumulation window
MaxWindowEvents == 2
\* loadRecording calls of one run
MaxLoads == 2

Devices == 0 .. (NumDevices - 1)

\* EventCameraLoader::MAX_CACHE_SIZE is 10000 in the source
\* (src/include/recording_data_loader.h:159); the model scales the value.
MAX_CACHE_SIZE == 2
\* static const size_t PREFETCH_AHEAD_FRAMES = MAX_CACHE_SIZE / 2
PREFETCH_AHEAD_FRAMES == MAX_CACHE_SIZE \div 2
\* the jump of setCurrentFrameIndex above which it is a seek
SEEK_THRESHOLD == 10
\* m_estimatedFrameCount of the loaded file
EstimatedFrameCount == 15
\* the frame indices getFrame is called with
FrameRequests == { 0, 1, 2 }
\* the positions setCurrentFrameIndex is called with: two of them within
\* SEEK_THRESHOLD of each other, one a seek away
Positions == { 0, 2, 13 }
\* what generateFrameFromTimeRange can return for one time window: the
\* image of the window's events, or the dark gray frame of its catch branch
GenOutcomes == { "rendered", "error" }

VARIABLES
    \* ---- FrameCameraManager ----
    m_acquiring,       \* std::atomic<bool>
    m_writingToDisk,   \* std::atomic<bool>
    m_frameQueue,      \* std::queue<FrameData>, as a sequence, front first
    queueMutex,        \* m_queueMutex: MutexFree, HeldByWriter or HeldByAcq(d)
    frameIndices,      \* static std::vector<int> frameIndices
    apc,               \* acquisitionWorker(d): position in its loop
    frameData,         \* acquisitionWorker(d): local FrameData
    wpc,               \* diskWriterWorker: position
    wcur,              \* diskWriterWorker: local FrameData of the inner loop
    cpc,               \* the thread calling startRecording/stopRecording
    sessions,          \* recording sessions started so far
    h_accepted,        \* frames whose worker found m_writingToDisk true
    h_pushed,          \* frames in the order they were enqueued
    h_dropped,         \* frames discarded by the drop-oldest branch
    h_handed,          \* frames handed to cv::imwrite, in order
    h_failed,          \* frames whose cv::imwrite failed (threw, or
                       \* returned false)
    h_logged,          \* frames whose write error the catch block logged
    h_atStop,          \* queue content when stopRecording cleared the flag
    h_exitSaw,         \* what the writer read when it left its outer loop
    \* ---- EventCameraLoader ----
    m_frameCache,         \* std::unordered_map<size_t, QImage>
    m_currentFrameIndex,  \* std::atomic<size_t>
    m_prefetchDirty,      \* bool, guarded by m_prefetchMutex
    m_prefetchRestart,    \* bool, guarded by m_prefetchMutex
    m_stopPrefetch,       \* std::atomic<bool>
    upc,                  \* the thread that calls getFrame, setCurrentFrameIndex
                          \* and the destructor (the GUI thread): position
    gIndex,               \* getFrame: its argument frameIndex
    gFrame,               \* getFrame: the image it returns
    gGenerated,           \* getFrame: whether this call generated the image
    sIsSeek,              \* setCurrentFrameIndex: the jump exceeded the threshold
    ppc,                  \* prefetchThreadMain: position
    shouldRestart,        \* prefetchThreadMain: local
    currentFrame,         \* prefetchThreadMain: local
    pi,                   \* prefetchThreadMain: loop variable i
    h_prevCall,           \* the previous completed getFrame: index and image
    h_removedSince,       \* h_prevCall's index was erased from the cache since
    h_evict,              \* the eviction of the getFrame call in progress
    h_seekTo,             \* the position set by the last seek signalled and
                          \* not yet taken by the worker
    h_restartFor,         \* h_seekTo when the worker took the restart request
    h_prune,              \* the pruning step the prefetch worker has just made
    \* ---- RecordingBuffer (its members carry the prefix rb_: two of them
    \* have the names of EventCameraLoader members) ----
    rb_currentMode,       \* Mode m_currentMode
    rb_active,            \* std::atomic<bool> m_active
    rb_dataLoader,        \* RecordingLoader* m_dataLoader
    rb_recordingManager,  \* void* m_recordingManager
    rb_currentFrameIndex, \* std::atomic<size_t> m_currentFrameIndex
    rb_lastFrameCount,    \* size_t m_lastFrameCount, guarded by m_fpsMutex
    rb_currentFrameData,  \* UnifiedFrameData m_currentFrameData
    rb_frameCache,        \* std::unordered_map<size_t, UnifiedFrameData>
    rb_liveBufferThread,  \* std::thread m_liveBufferThread: "none" (not
                          \* joinable), "running" or "finished"
    rb_stopBuffering,     \* std::atomic<bool> m_stopBuffering
    rb_liveFrameBuffer,   \* std::queue<BufferedFrameData>, front first
    rb_liveEventBuffer,   \* std::queue<BufferedEventData>, front first
    bpc,                  \* the thread that calls the RecordingBuffer: position
    bop,                  \* the call in progress: its name and argument
    lpc,                  \* liveBufferWorker: position
    lslot,                \* liveBufferWorker: slot createUnifiedFrame fills next
    unified,              \* liveBufferWorker: createUnifiedFrame's local
    mgr_recording,        \* RecordingManager::m_recording
    latestFrames,         \* per frame camera: the image getLatestFrame has
    latestEvents,         \* per event camera: the mat getLatestEventFrame has
    ld_dataReady,         \* RecordingDataLoader::m_dataReady
    ld_notified,          \* the position the loader was last notified of
    h_tick,               \* the monitor tick in progress or just completed
    h_emitted,            \* the last frameDataUpdated signal of playback
    \* ---- EventCameraManager (live streaming) ----
    m_liveStreaming,       \* std::atomic<bool>
    m_liveEventBuffers,    \* per camera: std::queue<EventFrameData>, front
                           \* first, each frame by its frameIndex
    m_eventBufferMutexes,  \* per camera: "free", "worker" or "reader"
    m_eventFrameCounters,  \* per camera: size_t
    spc,                   \* eventStreamingWorker(cameraId): position
    sframe,                \* eventStreamingWorker(cameraId): its frameData
    eventBuffer,           \* eventStreamingWorker(cameraId): the number of
                           \* events its callback has accumulated (0 or 1:
                           \* empty or not)
    h_lastTick,            \* per camera: what the last frame tick did
    epc,                   \* the thread that starts and stops the streaming
    readerAt,              \* the camera getLatestEventFrame is reading, or -1
    streamSessions,        \* streaming sessions started so far
    h_window,              \* per camera: events drawn / cleared, last frame
    \* ---- RecordingDataLoader ----
    m_data,                \* RecordingData
    m_dataReady,           \* std::atomic<bool>
    m_loading,             \* std::atomic<bool>
    m_abortLoading,        \* std::atomic<bool>
    loadedDir,             \* dirPath captured by the worker thread
    lwpc,                  \* loadDataWorker: none, frames, events, finish, done
    lwcam,                 \* loadDataWorker: the loop variable cam
    lmpc,                  \* main thread inside loadRecording: idle, join
    pendingDir,            \* dirPath argument of the loadRecording under way
    eventLoopQueue,        \* closures queued by QMetaObject::invokeMethod
    h_loadingFinished,     \* loadingFinished emitted since loadRecording
    h_eventFrame,          \* last getEventCameraFrame since loadRecording
    loads,                 \* loadRecording calls so far
    \* ---- RecordingManager ----
    m_configured,          \* std::atomic<bool>
    m_recording,           \* std::atomic<bool>
    ev_recording,          \* EventCameraManager::m_recording
    fr_writingToDisk,      \* FrameCameraManager::m_writingToDisk
    h_call                 \* the last call of the manager and what it did

captureVars == << m_acquiring, m_writingToDisk, m_frameQueue, queueMutex,
                  frameIndices, apc, frameData, wpc, wcur, cpc, sessions,
                  h_accepted, h_pushed, h_dropped, h_handed, h_failed, h_logged,
                  h_atStop, h_exitSaw >>

cacheVars == << m_frameCache, m_currentFrameIndex, m_prefetchDirty,
                m_prefetchRestart, m_stopPrefetch, upc, gIndex, gFrame,
                gGenerated, sIsSeek, ppc, shouldRestart, currentFrame, pi,
                h_prevCall, h_removedSince, h_evict, h_seekTo, h_restartFor,
                h_prune >>

bufferVars == << rb_currentMode, rb_active, rb_dataLoader, rb_recordingManager,
                 rb_currentFrameIndex, rb_currentFrameData, rb_frameCache,
                 rb_liveBufferThread, rb_stopBuffering, rb_liveFrameBuffer,
                 rb_liveEventBuffer, bpc, bop, lpc, lslot, unified,
                 mgr_recording, latestFrames, latestEvents, ld_dataReady,
                 ld_notified, h_tick, h_emitted, rb_lastFrameCount >>

streamVars == << m_liveStreaming, m_liveEventBuffers, m_eventBufferMutexes,
                 m_eventFrameCounters, spc, sframe, eventBuffer, h_lastTick,
                 epc, readerAt, streamSessions, h_window >>

loaderVars == << m_data, m_dataReady, m_loading, m_abortLoading, loadedDir,
                lwpc, lwcam, lmpc, pendingDir, eventLoopQueue,
                h_loadingFinished, h_eventFrame, loads >>

managerVars == << m_configured, m_recording, ev_recording,
                 fr_writingToDisk, h_call >>

vars == << captureVars, cacheVars, bufferVars, streamVars, loaderVars,
          managerVars >>

\* what the actions of one component leave alone
notCapture == << cacheVars, bufferVars, streamVars, loaderVars,
                managerVars >>
notCache == << captureVars, bufferVars, streamVars, loaderVars,
                managerVars >>
notBuffer == << captureVars, cacheVars, streamVars, loaderVars,
                managerVars >>
notStream == << captureVars, cacheVars, bufferVars, loaderVars,
                managerVars >>

notLoader == << captureVars, cacheVars, bufferVars, streamVars,
               managerVars >>

notManager == << captureVars, cacheVars, bufferVars, streamVars,
                loaderVars >>

NoFrame == << >>

\* the values of a mutex: who holds it
MutexFree == << "free", 0 >>
HeldByWriter == << "writer", 0 >>
HeldByAcq(d) == << "acq", d >>

\* struct FrameData {image, deviceId, frameIndex, timestamp}: the image and
\* the timestamp are determined by (deviceId, frameIndex) here.
FrameData(d, k) == [deviceId |-> d, frameIndex |-> k]

Range(s) == { s[i] : i \in 1 .. Len(s) }

RECURSIVE SelectDevice(_, _)
\* the subsequence of the frames of device d
SelectDevice(s, d) ==
    IF s = << >> THEN << >>
    ELSE IF Head(s).deviceId = d
         THEN << Head(s) >> \o SelectDevice(Tail(s), d)
         ELSE SelectDevice(Tail(s), d)

\* the last n elements of s (all of s when it is shorter)
LastN(s, n) ==
    IF Len(s) <= n THEN s ELSE SubSeq(s, Len(s) - n + 1, Len(s))

(***************************************************************************)
(* Initial state: the manager constructed, devices opened, nothing         *)
(* started.                                                                *)
(***************************************************************************)
InitCapture ==
    /\ m_acquiring = FALSE
    /\ m_writingToDisk = FALSE
    /\ m_frameQueue = << >>
    /\ queueMutex = MutexFree
    /\ frameIndices = [d \in Devices |-> 0]
    /\ apc = [d \in Devices |-> "none"]
    /\ frameData = [d \in Devices |-> NoFrame]
    /\ wpc = "none"
    /\ wcur = NoFrame
    /\ cpc = "idle"
    /\ sessions = 0
    /\ h_accepted = {}
    /\ h_pushed = << >>
    /\ h_dropped = {}
    /\ h_handed = << >>
    /\ h_failed = {}
    /\ h_logged = {}
    /\ h_atStop = {}
    /\ h_exitSaw = "none"

(***************************************************************************)
(* m_queueCondition.  Its only waiter is the disk writer; a notification   *)
(* reaches the writer only if it is blocked inside wait() at that moment.  *)
(***************************************************************************)
Notified(pc) == IF pc = "sleeping" THEN "woken" ELSE pc

(***************************************************************************)
(* FrameCameraManager::startRecording(outputPath)                          *)
(***************************************************************************)
StartRecording ==
    /\ cpc = "idle"
    /\ sessions < MaxSessions
    /\ sessions' = IF m_writingToDisk THEN sessions ELSE sessions + 1
    /\ IF ~m_acquiring
       THEN /\ m_acquiring' = TRUE                   \* startAcquisition()
            /\ apc' = [d \in Devices |-> "capture"]
       ELSE UNCHANGED << m_acquiring, apc >>
    /\ IF ~m_writingToDisk
       THEN /\ m_writingToDisk' = TRUE
            /\ wpc' = "outer"                        \* std::thread(diskWriterWorker)
       ELSE UNCHANGED << m_writingToDisk, wpc >>
    /\ UNCHANGED << m_frameQueue, queueMutex, frameIndices, frameData, wcur,
                    cpc, h_accepted, h_pushed, h_dropped, h_handed, h_failed, h_logged,
                    h_atStop, h_exitSaw >>
    /\ UNCHANGED notCapture

(***************************************************************************)
(* FrameCameraManager::stopRecording(): clear the flag, notify_all, join.  *)
(***************************************************************************)
StopRecordingClearFlag ==
    /\ cpc = "idle"
    /\ m_writingToDisk
    /\ m_writingToDisk' = FALSE
    /\ cpc' = "stop_notify"
    /\ h_atStop' = Range(m_frameQueue)
    /\ UNCHANGED << m_acquiring, m_frameQueue, queueMutex, frameIndices, apc,
                    frameData, wpc, wcur, sessions, h_accepted, h_pushed,
                    h_dropped, h_handed, h_failed, h_logged, h_exitSaw >>
    /\ UNCHANGED notCapture

StopRecordingNotify ==
    /\ cpc = "stop_notify"
    /\ wpc' = Notified(wpc)
    /\ cpc' = "stop_join"
    /\ UNCHANGED << m_acquiring, m_writingToDisk, m_frameQueue, queueMutex,
                    frameIndices, apc, frameData, wcur, sessions, h_accepted,
                    h_pushed, h_dropped, h_handed, h_failed, h_logged, h_atStop,
                    h_exitSaw >>
    /\ UNCHANGED notCapture

StopRecordingJoin ==
    /\ cpc = "stop_join"
    /\ wpc = "finished"
    /\ wpc' = "none"
    /\ cpc' = "idle"
    /\ UNCHANGED << m_acquiring, m_writingToDisk, m_frameQueue, queueMutex,
                    frameIndices, apc, frameData, wcur, sessions, h_accepted,
                    h_pushed, h_dropped, h_handed, h_failed, h_logged, h_atStop,
                    h_exitSaw >>
    /\ UNCHANGED notCapture

(***************************************************************************)
(* The queue operations the workers use.                                   *)
(***************************************************************************)
\* mutant of QueueHasRoom: an off-by-one capacity test
QueueHasRoom_OffByOne(q) == Len(q) <= MAX_QUEUE_SIZE

\* m_frameQueue.size() < MAX_QUEUE_SIZE
QueueHasRoom(q) == Len(q) < MAX_QUEUE_SIZE

\* m_frameQueue.push(frameData)
Enqueue(q, f) == Append(q, f)

\* mutant of Front: the newest record instead of the oldest
Front_Back(q) == q[Len(q)]

\* m_frameQueue.front()
Front(q) == Head(q)

\* mutant of Pop: removes the newest record instead of the oldest
Pop_Newest(q) == SubSeq(q, 1, Len(q) - 1)

\* m_frameQueue.pop()
Pop(q) == Tail(q)

(***************************************************************************)
(* FrameCameraManager::acquisitionWorker(deviceId), one thread per device. *)
(***************************************************************************)
\* One pass of the loop up to the test of m_writingToDisk:
\* WaitForFinishedBuffer, conversion, frameData.frameIndex = frameIndices[d]++,
\* then if (m_writingToDisk), a read of the atomic before the mutex is taken.
\* (All steps before that read touch only the worker's own data.)
AcqCapture(d) ==
    /\ apc[d] = "capture"
    /\ m_acquiring
    /\ frameIndices[d] < MaxFrames
    /\ frameData' = [frameData EXCEPT ![d] = FrameData(d, frameIndices[d])]
    /\ frameIndices' = [frameIndices EXCEPT ![d] = @ + 1]
    /\ IF m_writingToDisk
       THEN /\ apc' = [apc EXCEPT ![d] = "lock"]
            /\ h_accepted' = h_accepted \cup { frameData'[d] }
       ELSE UNCHANGED << apc, h_accepted >>
    /\ UNCHANGED << m_acquiring, m_writingToDisk, m_frameQueue, queueMutex,
                    wpc, wcur, cpc, sessions, h_pushed, h_dropped, h_handed,
                    h_failed, h_logged, h_atStop, h_exitSaw >>
    /\ UNCHANGED notCapture

\* std::unique_lock lock(m_queueMutex); then, with room, push, notify_one
\* and the release at the end of the block; without room, the pop of the
\* oldest frame
AcqPush(d) ==
    /\ apc[d] = "lock"
    /\ queueMutex = MutexFree
    /\ IF QueueHasRoom(m_frameQueue)
       THEN /\ m_frameQueue' = Enqueue(m_frameQueue, frameData[d])
            /\ wpc' = Notified(wpc)
            /\ apc' = [apc EXCEPT ![d] = "capture"]
            /\ h_pushed' = Append(h_pushed, frameData[d])
            /\ UNCHANGED << queueMutex, h_dropped >>
       ELSE /\ queueMutex' = HeldByAcq(d)
            /\ m_frameQueue' = Pop(m_frameQueue)
            /\ h_dropped' = h_dropped \cup { Front(m_frameQueue) }
            /\ apc' = [apc EXCEPT ![d] = "push_after_pop"]
            /\ UNCHANGED << wpc, h_pushed >>
    /\ UNCHANGED << m_acquiring, m_writingToDisk, frameIndices, frameData,
                    wcur, cpc, sessions, h_accepted, h_handed, h_failed, h_logged,
                    h_atStop, h_exitSaw >>
    /\ UNCHANGED notCapture

\* the push that follows the pop, notify_one, and the release of the mutex
AcqPushAfterPop(d) ==
    /\ apc[d] = "push_after_pop"
    /\ m_frameQueue' = Enqueue(m_frameQueue, frameData[d])
    /\ wpc' = Notified(wpc)
    /\ queueMutex' = MutexFree
    /\ apc' = [apc EXCEPT ![d] = "capture"]
    /\ h_pushed' = Append(h_pushed, frameData[d])
    /\ UNCHANGED << m_acquiring, m_writingToDisk, frameIndices, frameData,
                    wcur, cpc, sessions, h_accepted, h_dropped, h_handed,
                    h_failed, h_logged, h_atStop, h_exitSaw >>
    /\ UNCHANGED notCapture

(***************************************************************************)
(* FrameCameraManager::diskWriterWorker(outputPath)                        *)
(***************************************************************************)
\* What m_frameQueue.empty() can return when read without the mutex.  The
\* read races with a worker that is between its pop and its push: it yields
\* the state before or the state after that push.
UnlockedEmptyReads ==
    { m_frameQueue = << >> } \cup
    { Enqueue(m_frameQueue, frameData[d]) = << >> :
         d \in { e \in Devices : apc[e] = "push_after_pop" } }

\* while (m_writingToDisk || !m_frameQueue.empty()), no lock held
WriterOuter ==
    /\ wpc = "outer"
    /\ \E emp \in UnlockedEmptyReads :
          IF m_writingToDisk \/ ~emp
          THEN wpc' = "lock" /\ UNCHANGED h_exitSaw
          ELSE wpc' = "finished" /\ h_exitSaw' = "stopped_and_empty"
    /\ UNCHANGED << m_acquiring, m_writingToDisk, m_frameQueue, queueMutex,
                    frameIndices, apc, frameData, wcur, cpc, sessions,
                    h_accepted, h_pushed, h_dropped, h_handed, h_failed, h_logged,
                    h_atStop >>
    /\ UNCHANGED notCapture

\* the predicate of m_queueCondition.wait(lock, pred), evaluated under the lock
WaitPredicate == m_frameQueue # << >> \/ ~m_writingToDisk

\* std::unique_lock lock(m_queueMutex) and the first evaluation of the wait
\* predicate under it
WriterLock ==
    /\ wpc = "lock"
    /\ queueMutex = MutexFree
    /\ queueMutex' = HeldByWriter
    /\ wpc' = IF WaitPredicate THEN "inner" ELSE "to_sleep"
    /\ UNCHANGED << m_acquiring, m_writingToDisk, m_frameQueue, frameIndices,
                    apc, frameData, wcur, cpc, sessions, h_accepted, h_pushed,
                    h_dropped, h_handed, h_failed, h_logged, h_atStop, h_exitSaw >>
    /\ UNCHANGED notCapture

\* wait(lock) after the predicate was false: release the mutex and block
WriterSleep ==
    /\ wpc = "to_sleep"
    /\ queueMutex' = MutexFree
    /\ wpc' = "sleeping"
    /\ UNCHANGED << m_acquiring, m_writingToDisk, m_frameQueue, frameIndices,
                    apc, frameData, wcur, cpc, sessions, h_accepted, h_pushed,
                    h_dropped, h_handed, h_failed, h_logged, h_atStop, h_exitSaw >>
    /\ UNCHANGED notCapture

\* wait(lock) after a notification: reacquire the mutex, evaluate pred again
WriterWake ==
    /\ wpc = "woken"
    /\ queueMutex = MutexFree
    /\ queueMutex' = HeldByWriter
    /\ wpc' = IF WaitPredicate THEN "inner" ELSE "to_sleep"
    /\ UNCHANGED << m_acquiring, m_writingToDisk, m_frameQueue, frameIndices,
                    apc, frameData, wcur, cpc, sessions, h_accepted, h_pushed,
                    h_dropped, h_handed, h_failed, h_logged, h_atStop, h_exitSaw >>
    /\ UNCHANGED notCapture

\* mutant of MutexDuringWrite: the lock.unlock() before the write left out
MutexDuringWrite_Held == HeldByWriter

\* The mutex after the writer has taken a frame: lock.unlock()
MutexDuringWrite == MutexFree

\* while (!m_frameQueue.empty()) { front; pop; lock.unlock(); ...
\* and, when the queue is empty, the end of the outer loop's body (unlock)
WriterInner ==
    /\ wpc = "inner"
    /\ IF m_frameQueue # << >>
       THEN /\ wcur' = Front(m_frameQueue)
            /\ m_frameQueue' = Pop(m_frameQueue)
            /\ queueMutex' = MutexDuringWrite
            /\ wpc' = "imwrite"
       ELSE /\ queueMutex' = MutexFree
            /\ wpc' = "outer"
            /\ UNCHANGED << wcur, m_frameQueue >>
    /\ UNCHANGED << m_acquiring, m_writingToDisk, frameIndices, apc, frameData,
                    cpc, sessions, h_accepted, h_pushed, h_dropped, h_handed,
                    h_failed, h_logged, h_atStop, h_exitSaw >>
    /\ UNCHANGED notCapture

\* what bool cv::imwrite(filename, image) can do: write the file and return
\* true, throw a cv::Exception, or return false without throwing
ImwriteOutcomes == { "written", "threw", "returned_false" }

\* cv::imwrite(filename, frameData.image) inside try/catch: the catch block
\* logs an exception; the value imwrite returns is not read.  Then lock.lock()
WriterImwrite ==
    /\ wpc = "imwrite"
    /\ queueMutex = MutexFree
    /\ queueMutex' = HeldByWriter
    /\ h_handed' = Append(h_handed, wcur)
    /\ \E outcome \in ImwriteOutcomes :
          /\ h_failed' = IF outcome = "written" THEN h_failed
                         ELSE h_failed \cup { wcur }
          /\ h_logged' = IF outcome = "threw" THEN h_logged \cup { wcur }
                         ELSE h_logged
    /\ wpc' = "inner"
    /\ wcur' = NoFrame
    /\ UNCHANGED << m_acquiring, m_writingToDisk, m_frameQueue, frameIndices,
                    apc, frameData, cpc, sessions, h_accepted, h_pushed,
                    h_dropped, h_atStop, h_exitSaw >>
    /\ UNCHANGED notCapture

NextCapture ==
    \/ StartRecording
    \/ StopRecordingClearFlag
    \/ StopRecordingNotify
    \/ StopRecordingJoin
    \/ \E d \in Devices : AcqCapture(d)
    \/ \E d \in Devices : AcqPush(d)
    \/ \E d \in Devices : AcqPushAfterPop(d)
    \/ WriterOuter
    \/ WriterLock
    \/ WriterSleep
    \/ WriterWake
    \/ WriterInner
    \/ WriterImwrite

(***************************************************************************)
(* EventCameraLoader: the frame cache, getFrame, setCurrentFrameIndex, the *)
(* destructor and the prefetch thread.  The loader is a valid one          *)
(* (m_isValid true).  The cache is the set of its (index, image) entries.  *)
(***************************************************************************)
NoCall == [index |-> -1, image |-> "none"]
NoEvict == [victim |-> -1, keys |-> {}, current |-> -1]
NoPrune == [around |-> -1, seekTo |-> -1, erased |-> {}, kept |-> {}]

Keys(c) == { e.index : e \in c }

\* m_frameCache.find(k)->second, for a cached k
ImageAt(c, k) == (CHOOSE e \in c : e.index = k).image

\* m_frameCache[k] = img: inserts, or overwrites the entry of k
Store(c, k, img) ==
    { e \in c : e.index # k } \cup { [index |-> k, image |-> img] }

\* m_frameCache.erase(it) for each key of ks
Erase(c, ks) == { e \in c : e.index \notin ks }

Abs(x) == IF x < 0 THEN -x ELSE x

InitCache ==
    /\ m_frameCache = {}
    /\ m_currentFrameIndex = 0
    /\ m_prefetchDirty = FALSE
    /\ m_prefetchRestart = FALSE   \* as m_prefetchDirty{false}
    /\ m_stopPrefetch = FALSE
    /\ upc = "idle"
    /\ gIndex = 0
    /\ gFrame = "none"
    /\ gGenerated = FALSE
    /\ sIsSeek = FALSE
    /\ ppc = "top"            \* the constructor has started the thread
    /\ shouldRestart = FALSE
    /\ currentFrame = 0
    /\ pi = 1
    /\ h_prevCall = NoCall
    /\ h_removedSince = FALSE
    /\ h_evict = NoEvict
    /\ h_seekTo = -1
    /\ h_restartFor = -1
    /\ h_prune = NoPrune

\* m_frameMutex is held across steps only by getFrame, from its lookup to
\* its return; the prefetch thread takes it for single steps.
FrameMutexFree == upc \notin { "generate", "evict" }

\* m_prefetchMutex is held across steps only by the prefetch thread between
\* a false wait predicate and its going to sleep.
PrefetchMutexFree == ppc # "to_sleep"

\* m_prefetchCv: its only waiter is the prefetch thread
PrefetchNotified(pc) == IF pc = "sleeping" THEN "woken" ELSE pc

\* whether ks erased from the cache takes away h_prevCall's entry
RemovedBy(ks) == h_removedSince \/ h_prevCall.index \in ks

(***************************************************************************)
(* EventCameraLoader::getFrame(frameIndex, fps)                            *)
(***************************************************************************)
\* lock_guard lock(m_frameMutex); the lookup; on a hit, the return
GetFrame(i) ==
    /\ upc = "idle"
    /\ gIndex' = i
    /\ IF i \in Keys(m_frameCache)
       THEN /\ gFrame' = ImageAt(m_frameCache, i)
            /\ gGenerated' = FALSE
            /\ upc' = "return"
       ELSE /\ upc' = "generate"
            /\ UNCHANGED << gFrame, gGenerated >>
    /\ UNCHANGED << m_frameCache, m_currentFrameIndex, m_prefetchDirty,
                    m_prefetchRestart, m_stopPrefetch, sIsSeek, ppc,
                    shouldRestart, currentFrame, pi, h_prevCall,
                    h_removedSince, h_evict, h_seekTo, h_restartFor, h_prune >>
    /\ UNCHANGED notCache

\* frame = generateFrameFromTimeRange(...); m_frameCache[frameIndex] = frame
GetFrameGenerate ==
    /\ upc = "generate"
    /\ \E img \in GenOutcomes :
          /\ gFrame' = img
          /\ m_frameCache' = Store(m_frameCache, gIndex, img)
    /\ gGenerated' = TRUE
    /\ upc' = "evict"
    /\ UNCHANGED << m_currentFrameIndex, m_prefetchDirty, m_prefetchRestart,
                    m_stopPrefetch, gIndex, sIsSeek, ppc, shouldRestart,
                    currentFrame, pi, h_prevCall, h_removedSince, h_evict,
                    h_seekTo, h_restartFor, h_prune >>
    /\ UNCHANGED notCache

\* the loop of getFrame that picks the entry to erase: 'oldest' ends as the
\* entry with the smallest key
EvictionVictim(keys) == CHOOSE k \in keys : \A j \in keys : k <= j

\* if (m_frameCache.size() > MAX_CACHE_SIZE) erase(oldest); the release of
\* the mutex
GetFrameEvict ==
    /\ upc = "evict"
    /\ IF Cardinality(m_frameCache) > MAX_CACHE_SIZE
       THEN LET victim == EvictionVictim(Keys(m_frameCache))
            IN  /\ m_frameCache' = Erase(m_frameCache, { victim })
                /\ h_evict' = [victim |-> victim,
                               keys |-> Keys(m_frameCache),
                               current |-> m_currentFrameIndex]
                /\ h_removedSince' = RemovedBy({ victim })
       ELSE UNCHANGED << m_frameCache, h_evict, h_removedSince >>
    /\ upc' = "return"
    /\ UNCHANGED << m_currentFrameIndex, m_prefetchDirty, m_prefetchRestart,
                    m_stopPrefetch, gIndex, gFrame, gGenerated, sIsSeek, ppc,
                    shouldRestart, currentFrame, pi, h_prevCall, h_seekTo,
                    h_restartFor, h_prune >>
    /\ UNCHANGED notCache

\* return frame: the caller has the image
GetFrameReturn ==
    /\ upc = "return"
    /\ upc' = "idle"
    /\ h_prevCall' = [index |-> gIndex, image |-> gFrame]
    /\ h_removedSince' = (gIndex \notin Keys(m_frameCache))
    /\ gIndex' = 0
    /\ gFrame' = "none"
    /\ gGenerated' = FALSE
    /\ h_evict' = NoEvict
    /\ UNCHANGED << m_frameCache, m_currentFrameIndex, m_prefetchDirty,
                    m_prefetchRestart, m_stopPrefetch, sIsSeek, ppc,
                    shouldRestart, currentFrame, pi, h_seekTo, h_restartFor,
                    h_prune >>
    /\ UNCHANGED notCache

(***************************************************************************)
(* EventCameraLoader::setCurrentFrameIndex(frameIndex)                     *)
(***************************************************************************)
\* oldFrame = m_currentFrameIndex.exchange(frameIndex) and the comparison
SetIndexExchange(f) ==
    /\ upc = "idle"
    /\ m_currentFrameIndex' = f
    /\ sIsSeek' = (Abs(f - m_currentFrameIndex) > SEEK_THRESHOLD)
    /\ upc' = "signal"
    /\ UNCHANGED << m_frameCache, m_prefetchDirty, m_prefetchRestart,
                    m_stopPrefetch, gIndex, gFrame, gGenerated, ppc,
                    shouldRestart, currentFrame, pi, h_prevCall,
                    h_removedSince, h_evict, h_seekTo, h_restartFor, h_prune >>
    /\ UNCHANGED notCache

\* under m_prefetchMutex: m_prefetchRestart (on a seek) and m_prefetchDirty;
\* then notify_one (requestPrefetch() for a small change)
SetIndexSignal ==
    /\ upc = "signal"
    /\ PrefetchMutexFree
    /\ m_prefetchDirty' = TRUE
    /\ m_prefetchRestart' = (m_prefetchRestart \/ sIsSeek)
    /\ h_seekTo' = IF sIsSeek THEN m_currentFrameIndex ELSE h_seekTo
    /\ ppc' = PrefetchNotified(ppc)
    /\ upc' = "idle"
    /\ sIsSeek' = FALSE
    /\ UNCHANGED << m_frameCache, m_currentFrameIndex, m_stopPrefetch, gIndex,
                    gFrame, gGenerated, shouldRestart, currentFrame,
                    pi, h_prevCall, h_removedSince, h_evict, h_restartFor,
                    h_prune >>
    /\ UNCHANGED notCache

(***************************************************************************)
(* EventCameraLoader::~EventCameraLoader()                                 *)
(***************************************************************************)
DestructorSetStop ==
    /\ upc = "idle"
    /\ m_stopPrefetch' = TRUE
    /\ upc' = "dtor_notify"
    /\ UNCHANGED << m_frameCache, m_currentFrameIndex, m_prefetchDirty,
                    m_prefetchRestart, gIndex, gFrame, gGenerated, sIsSeek,
                    ppc, shouldRestart, currentFrame, pi, h_prevCall,
                    h_removedSince, h_evict, h_seekTo, h_restartFor, h_prune >>
    /\ UNCHANGED notCache

DestructorNotify ==
    /\ upc = "dtor_notify"
    /\ ppc' = PrefetchNotified(ppc)
    /\ upc' = "dtor_join"
    /\ UNCHANGED << m_frameCache, m_currentFrameIndex, m_prefetchDirty,
                    m_prefetchRestart, m_stopPrefetch, gIndex, gFrame,
                    gGenerated, sIsSeek, shouldRestart, currentFrame, pi,
                    h_prevCall, h_removedSince, h_evict, h_seekTo, h_restartFor, h_prune >>
    /\ UNCHANGED notCache

DestructorJoin ==
    /\ upc = "dtor_join"
    /\ ppc = "exit"
    /\ upc' = "destroyed"
    /\ UNCHANGED << m_frameCache, m_currentFrameIndex, m_prefetchDirty,
                    m_prefetchRestart, m_stopPrefetch, gIndex, gFrame,
                    gGenerated, sIsSeek, ppc, shouldRestart, currentFrame, pi,
                    h_prevCall, h_removedSince, h_evict, h_seekTo, h_restartFor, h_prune >>
    /\ UNCHANGED notCache

(***************************************************************************)
(* EventCameraLoader::prefetchThreadMain()                                 *)
(***************************************************************************)
\* the predicate of m_prefetchCv.wait(lock, pred)
PrefetchWaitPredicate == m_prefetchDirty \/ m_stopPrefetch

\* After the mutex is (re)acquired: the wait predicate; when it holds, the
\* break on m_stopPrefetch or the taking of the request and the unlock.
PrefetchAfterLock ==
    IF ~PrefetchWaitPredicate
    THEN /\ ppc' = "to_sleep"
         /\ UNCHANGED << m_prefetchDirty, m_prefetchRestart, shouldRestart,
                         h_restartFor, h_seekTo >>
    ELSE IF m_stopPrefetch
    THEN /\ ppc' = "exit"
         /\ UNCHANGED << m_prefetchDirty, m_prefetchRestart, shouldRestart,
                         h_restartFor, h_seekTo >>
    ELSE /\ shouldRestart' = m_prefetchRestart
         /\ m_prefetchDirty' = FALSE
         /\ m_prefetchRestart' = FALSE
         /\ h_restartFor' = IF m_prefetchRestart THEN h_seekTo ELSE -1
         /\ h_seekTo' = -1
         /\ ppc' = "load"

\* while (!m_stopPrefetch) { unique_lock lock(m_prefetchMutex); wait(...)
PrefetchLock ==
    /\ ppc = "top"
    /\ IF m_stopPrefetch
       THEN /\ ppc' = "exit"
            /\ UNCHANGED << m_prefetchDirty, m_prefetchRestart, shouldRestart,
                            h_restartFor, h_seekTo >>
       ELSE PrefetchAfterLock
    /\ UNCHANGED << m_frameCache, m_currentFrameIndex, m_stopPrefetch, upc,
                    gIndex, gFrame, gGenerated, sIsSeek, currentFrame, pi,
                    h_prevCall, h_removedSince, h_evict, h_prune >>
    /\ UNCHANGED notCache

\* wait(lock) after the predicate was false: release the mutex and block
PrefetchSleep ==
    /\ ppc = "to_sleep"
    /\ ppc' = "sleeping"
    /\ UNCHANGED << m_frameCache, m_currentFrameIndex, m_prefetchDirty,
                    m_prefetchRestart, m_stopPrefetch, upc, gIndex, gFrame,
                    gGenerated, sIsSeek, shouldRestart, currentFrame, pi,
                    h_prevCall, h_removedSince, h_evict, h_seekTo,
                    h_restartFor, h_prune >>
    /\ UNCHANGED notCache

\* wait(lock) after a notification: reacquire the mutex, evaluate pred again
PrefetchWake ==
    /\ ppc = "woken"
    /\ PrefetchAfterLock
    /\ UNCHANGED << m_frameCache, m_currentFrameIndex, m_stopPrefetch, upc,
                    gIndex, gFrame, gGenerated, sIsSeek, currentFrame, pi,
                    h_prevCall, h_removedSince, h_evict, h_prune >>
    /\ UNCHANGED notCache

\* size_t currentFrame = m_currentFrameIndex.load()
PrefetchLoad ==
    /\ ppc = "load"
    /\ currentFrame' = m_currentFrameIndex
    /\ pi' = 1
    /\ ppc' = IF shouldRestart THEN "prune" ELSE "loop"
    /\ UNCHANGED << m_frameCache, m_currentFrameIndex, m_prefetchDirty,
                    m_prefetchRestart, m_stopPrefetch, upc, gIndex, gFrame,
                    gGenerated, sIsSeek, shouldRestart, h_prevCall,
                    h_removedSince, h_evict, h_seekTo, h_restartFor, h_prune >>
    /\ UNCHANGED notCache

\* mutant of ShouldErase: the same distance allowed behind and ahead
ShouldErase_Symmetric(cachedFrame, cur) ==
    Abs(cachedFrame - cur) > PREFETCH_AHEAD_FRAMES

\* the two erase conditions of the pruning loop
ShouldErase(cachedFrame, cur) ==
    \/ cachedFrame < cur /\ (cur - cachedFrame) > PREFETCH_AHEAD_FRAMES
    \/ cachedFrame > cur /\ (cachedFrame - cur) > PREFETCH_AHEAD_FRAMES * 2

\* if (shouldRestart) { lock_guard cacheLock(m_frameMutex); erase loop }
PrefetchPrune ==
    /\ ppc = "prune"
    /\ FrameMutexFree
    /\ LET erased == { k \in Keys(m_frameCache) : ShouldErase(k, currentFrame) }
       IN  /\ m_frameCache' = Erase(m_frameCache, erased)
           /\ h_removedSince' = RemovedBy(erased)
           /\ h_prune' = [around |-> currentFrame,
                          seekTo |-> h_restartFor,
                          erased |-> erased,
                          kept |-> Keys(m_frameCache) \ erased]
    /\ ppc' = "loop"
    /\ h_restartFor' = -1
    /\ UNCHANGED << m_currentFrameIndex, m_prefetchDirty, m_prefetchRestart,
                    m_stopPrefetch, upc, gIndex, gFrame, gGenerated, sIsSeek,
                    shouldRestart, currentFrame, pi, h_prevCall, h_evict,
                    h_seekTo >>
    /\ UNCHANGED notCache

RestartRequested_Ignored == FALSE

\* { lock_guard restartLock(m_prefetchMutex); if (m_prefetchRestart) break; }
RestartRequested == m_prefetchRestart

\* for (i = 1; i <= PREFETCH_AHEAD_FRAMES; ++i): the loop condition, the
\* breaks on m_stopPrefetch and on m_prefetchRestart (read under
\* m_prefetchMutex), and the break at the end of the file
PrefetchLoopTop ==
    /\ ppc = "loop"
    /\ IF \/ pi > PREFETCH_AHEAD_FRAMES
          \/ m_stopPrefetch
          \/ RestartRequested
          \/ currentFrame + pi >= EstimatedFrameCount
       THEN /\ ppc' = "top"          \* the locals go out of scope
            /\ shouldRestart' = FALSE
            /\ currentFrame' = 0
            /\ pi' = 1
       ELSE /\ ppc' = "check_cached"
            /\ UNCHANGED << shouldRestart, currentFrame, pi >>
    /\ h_prune' = NoPrune
    /\ UNCHANGED << m_frameCache, m_currentFrameIndex, m_prefetchDirty,
                    m_prefetchRestart, m_stopPrefetch, upc, gIndex, gFrame,
                    gGenerated, sIsSeek, h_prevCall, h_removedSince, h_evict,
                    h_seekTo, h_restartFor >>
    /\ UNCHANGED notCache

\* under m_frameMutex: if the frame is already cached, continue
PrefetchCheckCached ==
    /\ ppc = "check_cached"
    /\ FrameMutexFree
    /\ IF (currentFrame + pi) \in Keys(m_frameCache)
       THEN ppc' = "loop" /\ pi' = pi + 1
       ELSE ppc' = "insert" /\ UNCHANGED pi
    /\ UNCHANGED << m_frameCache, m_currentFrameIndex, m_prefetchDirty,
                    m_prefetchRestart, m_stopPrefetch, upc, gIndex, gFrame,
                    gGenerated, sIsSeek, shouldRestart, currentFrame,
                    h_prevCall, h_removedSince, h_evict, h_seekTo,
                    h_restartFor, h_prune >>
    /\ UNCHANGED notCache

\* mutant of PrefetchMayInsert: an off-by-one capacity test
PrefetchMayInsert_OffByOne(n) == n <= MAX_CACHE_SIZE

\* if (m_frameCache.size() < MAX_CACHE_SIZE)
PrefetchMayInsert(n) == n < MAX_CACHE_SIZE

\* frame = generateFrameFromTimeRange(...) without a lock; then, under
\* m_frameMutex, the insertion if the cache has room
PrefetchInsert ==
    /\ ppc = "insert"
    /\ FrameMutexFree
    /\ \E img \in GenOutcomes :
          m_frameCache' =
              IF PrefetchMayInsert(Cardinality(m_frameCache))
              THEN Store(m_frameCache, currentFrame + pi, img)
              ELSE m_frameCache
    /\ pi' = pi + 1
    /\ ppc' = "loop"
    /\ UNCHANGED << m_currentFrameIndex, m_prefetchDirty, m_prefetchRestart,
                    m_stopPrefetch, upc, gIndex, gFrame, gGenerated, sIsSeek,
                    shouldRestart, currentFrame, h_prevCall, h_removedSince,
                    h_evict, h_seekTo, h_restartFor, h_prune >>
    /\ UNCHANGED notCache

NextCache ==
    \/ \E i \in FrameRequests : GetFrame(i)
    \/ GetFrameGenerate
    \/ GetFrameEvict
    \/ GetFrameReturn
    \/ \E f \in Positions : SetIndexExchange(f)
    \/ SetIndexSignal
    \/ DestructorSetStop
    \/ DestructorNotify
    \/ DestructorJoin
    \/ PrefetchLock
    \/ PrefetchSleep
    \/ PrefetchWake
    \/ PrefetchLoad
    \/ PrefetchPrune
    \/ PrefetchLoopTop
    \/ PrefetchCheckCached
    \/ PrefetchInsert

(***************************************************************************)
(* RecordingBuffer (src/unnamed/part_000, lines 716-1120): the mode        *)
(* coordinator between playback from a loader and live monitoring of a     *)
(* recording manager.  One thread calls its methods; the live monitor      *)
(* thread runs liveBufferWorker.                                           *)
(***************************************************************************)
\* the two cameras of each kind: for (int i = 0; i < 2; ++i)
Cams == { 0, 1 }

\* cv::Mat values: the empty mat and mats by type
EmptyMat == "empty"
\* QImage values: the null image and a converted image
NullImage == "null"

\* cvMatToQImage: the three 8-bit types convert, anything else (and the
\* empty mat) gives a null QImage
cvMatToQImage(mat) ==
    IF mat \in { "8UC1", "8UC3", "8UC4" } THEN "rgba" ELSE NullImage

\* what the cameras deliver: frames as read from the device, event frames as
\* generateEventFrame builds them (CV_8UC3)
CameraMat == "8UC3"

\* the recording the loader has read: image files per frame camera and
\* which event cameras have a valid loader
RecordedFrames == [c \in Cams |-> IF c = 0 THEN 2 ELSE 0]
RecordedEvents == [c \in Cams |-> c = 0]

\* the event cameras that deliver live data: camera 1 stays a source without
\* data, in live mode as in the recording
EventSources == { c \in Cams : RecordedEvents[c] }

\* a default-constructed UnifiedFrameData
DefaultUnified ==
    [frameIndex |-> 0, isValid |-> FALSE, frameData |-> << >>,
     eventData |-> << >>]

NoOp == [op |-> "none", arg |-> "null", index |-> 0, wasActive |-> FALSE,
         fromMode |-> "Playback"]
\* no updateFPS call has taken its once-a-second branch in this tick
NoFpsUpdate == [current |-> 0, last |-> 0, frameDiff |-> 0]
NoTick == [started |-> FALSE, active |-> FALSE, frames |-> {}, events |-> {},
           done |-> FALSE, fps |-> NoFpsUpdate]
NoEmit == -1

InitBuffer ==
    /\ rb_currentMode = "Playback"
    /\ rb_active = FALSE
    /\ rb_lastFrameCount = 0
    /\ rb_dataLoader = "null"
    /\ rb_recordingManager = "null"
    /\ rb_currentFrameIndex = 0
    /\ rb_currentFrameData = DefaultUnified
    /\ rb_frameCache = {}
    /\ rb_liveBufferThread = "none"
    /\ rb_stopBuffering = FALSE
    /\ rb_liveFrameBuffer = << >>
    /\ rb_liveEventBuffer = << >>
    /\ bpc = "idle"
    /\ bop = NoOp
    /\ lpc = "none"
    /\ lslot = 0
    /\ unified = DefaultUnified
    /\ mgr_recording = FALSE
    /\ latestFrames = [c \in Cams |-> EmptyMat]
    /\ latestEvents = [c \in Cams |-> EmptyMat]
    /\ ld_dataReady = FALSE
    /\ ld_notified = -1
    /\ h_tick = NoTick
    /\ h_emitted = NoEmit

\* the variables of the caller's side that the mode methods do not touch
modeUnchanged == << lslot, unified, mgr_recording, latestFrames, latestEvents,
                    ld_dataReady, ld_notified, h_tick, h_emitted ,
                    rb_lastFrameCount >>

\* mutant of NeedsStop: the mode is changed without stopping first
NeedsStop_Never(active) == FALSE

\* if (m_active) stop(), and stop()'s own if (!m_active) return
NeedsStop(active) == active

\* mutant of ThreadEnded: stop() does not wait for the monitor thread
ThreadEnded_NoJoin(thread) == TRUE

\* m_liveBufferThread.join() returns once the thread has ended
ThreadEnded(thread) == thread # "running"

\* mutant of ClearQueue: stop() leaves the queue as it is
ClearQueue_Skip(queue) == queue

\* while (!queue.empty()) queue.pop()
ClearQueue(queue) == << >>

\* if (m_active) stop();  and, inside stop(), m_active = false.  The caller
\* is the only thread that writes m_active, so its test and its write are
\* one step.  op is "setLive", "setPlayback" or "stop".
BeginCall(op, arg) ==
    /\ bpc = "idle"
    /\ bop' = [op |-> op, arg |-> arg, index |-> 0, wasActive |-> rb_active,
               fromMode |-> rb_currentMode]
    /\ IF NeedsStop(rb_active)
       THEN /\ rb_active' = FALSE
            /\ bpc' = IF rb_currentMode = "Live" THEN "stop_signal"
                      ELSE "stop_clear"
       ELSE /\ rb_active' = rb_active
            /\ bpc' = IF op = "stop" THEN "return" ELSE "establish"
    /\ UNCHANGED << rb_currentMode, rb_dataLoader, rb_recordingManager,
                    rb_currentFrameIndex, rb_currentFrameData, rb_frameCache,
                    rb_liveBufferThread, rb_stopBuffering, rb_liveFrameBuffer,
                    rb_liveEventBuffer, lpc >>
    /\ UNCHANGED modeUnchanged
    /\ UNCHANGED notBuffer

\* stopLiveBuffering: m_stopBuffering = true; m_liveBufferCondition.notify_all()
\* (no thread ever waits on that condition variable)
StopSignal ==
    /\ bpc = "stop_signal"
    /\ rb_stopBuffering' = TRUE
    /\ bpc' = "stop_join"
    /\ UNCHANGED << rb_currentMode, rb_active, rb_dataLoader,
                    rb_recordingManager, rb_currentFrameIndex,
                    rb_currentFrameData, rb_frameCache, rb_liveBufferThread,
                    rb_liveFrameBuffer, rb_liveEventBuffer, bop, lpc >>
    /\ UNCHANGED modeUnchanged
    /\ UNCHANGED notBuffer

\* if (m_liveBufferThread.joinable()) m_liveBufferThread.join()
StopJoin ==
    /\ bpc = "stop_join"
    /\ ThreadEnded(rb_liveBufferThread)
    /\ rb_liveBufferThread' = "none"
    /\ bpc' = "stop_clear"
    /\ UNCHANGED << rb_currentMode, rb_active, rb_dataLoader,
                    rb_recordingManager, rb_currentFrameIndex,
                    rb_currentFrameData, rb_frameCache, rb_stopBuffering,
                    rb_liveFrameBuffer, rb_liveEventBuffer, bop, lpc >>
    /\ UNCHANGED modeUnchanged
    /\ UNCHANGED notBuffer

\* the rest of stop(): m_frameCache.clear(), both live queues emptied,
\* m_currentFrameIndex = 0, m_currentFPS = 0.0
StopClear ==
    /\ bpc = "stop_clear"
    /\ rb_frameCache' = {}
    /\ rb_liveFrameBuffer' = ClearQueue(rb_liveFrameBuffer)
    /\ rb_liveEventBuffer' = ClearQueue(rb_liveEventBuffer)
    /\ rb_currentFrameIndex' = 0
    /\ bpc' = IF bop.op = "stop" THEN "return" ELSE "establish"
    /\ UNCHANGED << rb_currentMode, rb_active, rb_dataLoader,
                    rb_recordingManager, rb_currentFrameData,
                    rb_liveBufferThread, rb_stopBuffering, bop, lpc >>
    /\ UNCHANGED modeUnchanged
    /\ UNCHANGED notBuffer

\* setLiveMode / setPlaybackMode after the stop: the pointers and the mode
\* are recorded; setLiveMode starts the monitor thread if the manager is
\* recording (startLiveBuffering), setPlaybackMode connects the loader
Establish ==
    /\ bpc = "establish"
    /\ IF bop.op = "setLive"
       THEN /\ rb_recordingManager' = bop.arg
            /\ rb_dataLoader' = "null"
            /\ rb_currentMode' = "Live"
            /\ IF bop.arg # "null" /\ mgr_recording
               THEN /\ rb_stopBuffering' = FALSE
                    /\ rb_liveBufferThread' = "running"
                    /\ lpc' = "loop"
                    /\ bpc' = "activate"
               ELSE /\ bpc' = "return"
                    /\ UNCHANGED << rb_stopBuffering, rb_liveBufferThread,
                                    lpc >>
       ELSE /\ rb_dataLoader' = bop.arg
            /\ rb_recordingManager' = "null"
            /\ rb_currentMode' = "Playback"
            /\ bpc' = IF bop.arg # "null" THEN "activate" ELSE "return"
            /\ UNCHANGED << rb_stopBuffering, rb_liveBufferThread, lpc >>
    /\ UNCHANGED << rb_active, rb_currentFrameIndex, rb_currentFrameData,
                    rb_frameCache, rb_liveFrameBuffer, rb_liveEventBuffer,
                    bop >>
    /\ UNCHANGED modeUnchanged
    /\ UNCHANGED notBuffer

\* m_active = true; emit modeChanged(...)
Activate ==
    /\ bpc = "activate"
    /\ rb_active' = TRUE
    /\ bpc' = "return"
    /\ UNCHANGED << rb_currentMode, rb_dataLoader, rb_recordingManager,
                    rb_currentFrameIndex, rb_currentFrameData, rb_frameCache,
                    rb_liveBufferThread, rb_stopBuffering, rb_liveFrameBuffer,
                    rb_liveEventBuffer, bop, lpc >>
    /\ UNCHANGED modeUnchanged
    /\ UNCHANGED notBuffer

\* the call returns
Return ==
    /\ bpc = "return"
    /\ bpc' = "idle"
    /\ bop' = NoOp
    /\ h_emitted' = NoEmit
    /\ UNCHANGED << rb_currentMode, rb_active, rb_dataLoader,
                    rb_recordingManager, rb_currentFrameIndex,
                    rb_currentFrameData, rb_frameCache, rb_liveBufferThread,
                    rb_stopBuffering, rb_liveFrameBuffer, rb_liveEventBuffer,
                    lpc, lslot, unified, mgr_recording, latestFrames,
                    latestEvents, ld_dataReady, ld_notified, h_tick >>
    /\ UNCHANGED rb_lastFrameCount
    /\ UNCHANGED notBuffer

\* the search loop of getFrameCameraFrame / getEventCameraFrame in live
\* mode: the last entry of the queue for this camera with isValid set
LatestOf(buffer, camera, none) ==
    LET hits == { i \in 1 .. Len(buffer) :
                     buffer[i].cameraId = camera /\ buffer[i].isValid }
    IN  IF hits = {} THEN none
        ELSE buffer[CHOOSE i \in hits : \A j \in hits : j <= i].image

\* RecordingDataLoader::getFrameCameraFrame and FrameCameraData::loadFrame
LoaderFrame(camera, frameIndex) ==
    IF ~ld_dataReady \/ frameIndex >= RecordedFrames[camera]
    THEN EmptyMat ELSE CameraMat

\* RecordingDataLoader::getEventCameraFrame: the lazy loader's frame
LoaderEventFrame(camera, frameIndex) ==
    IF ~ld_dataReady \/ ~RecordedEvents[camera]
    THEN NullImage ELSE cvMatToQImage(CameraMat)

\* mutant of GetFrameCameraFrame: the live branch finds nothing
GetFrameCameraFrame_NoLive(camera, frameIndex) ==
    IF ~rb_active THEN EmptyMat
    ELSE IF rb_currentMode = "Playback" /\ rb_dataLoader # "null"
    THEN LoaderFrame(camera, frameIndex)
    ELSE EmptyMat

\* RecordingBuffer::getFrameCameraFrame
GetFrameCameraFrame(camera, frameIndex) ==
    IF ~rb_active THEN EmptyMat
    ELSE IF rb_currentMode = "Playback" /\ rb_dataLoader # "null"
    THEN LoaderFrame(camera, frameIndex)
    ELSE IF rb_currentMode = "Live"
    THEN LatestOf(rb_liveFrameBuffer, camera, EmptyMat)
    ELSE EmptyMat

\* RecordingBuffer::getEventCameraFrame
GetEventCameraFrame(camera, frameIndex) ==
    IF ~rb_active THEN NullImage
    ELSE IF rb_currentMode = "Playback" /\ rb_dataLoader # "null"
    THEN LoaderEventFrame(camera, frameIndex)
    ELSE IF rb_currentMode = "Live"
    THEN LatestOf(rb_liveEventBuffer, camera, NullImage)
    ELSE NullImage

\* the slot validity mutant: the slot is valid whenever the buffer is active
FrameSlot_ValidIfActive(camera, frameIndex) ==
    [image |-> GetFrameCameraFrame(camera, frameIndex), isValid |-> rb_active]

\* one iteration of createUnifiedFrame's first loop
FrameSlot(camera, frameIndex) ==
    LET image == GetFrameCameraFrame(camera, frameIndex)
    IN  [image |-> image, isValid |-> image # EmptyMat]

\* one iteration of createUnifiedFrame's second loop
EventSlot(camera, frameIndex) ==
    LET frame == GetEventCameraFrame(camera, frameIndex)
    IN  [image |-> frame, isValid |-> frame # NullImage]

\* createUnifiedFrame's header: frameIndex, isValid = true, empty vectors
UnifiedHeader(frameIndex) ==
    [frameIndex |-> frameIndex, isValid |-> TRUE, frameData |-> << >>,
     eventData |-> << >>]

\* mutant of CreateUnifiedFrame: the record keeps the index of construction
CreateUnifiedFrame_DefaultIndex(frameIndex) ==
    [frameIndex |-> 0, isValid |-> TRUE,
     frameData |-> << FrameSlot(0, frameIndex), FrameSlot(1, frameIndex) >>,
     eventData |-> << EventSlot(0, frameIndex), EventSlot(1, frameIndex) >>]

\* createUnifiedFrame run without interleaving (the playback path)
CreateUnifiedFrame(frameIndex) ==
    [frameIndex |-> frameIndex, isValid |-> TRUE,
     frameData |-> << FrameSlot(0, frameIndex), FrameSlot(1, frameIndex) >>,
     eventData |-> << EventSlot(0, frameIndex), EventSlot(1, frameIndex) >>]

\* setCurrentFrameIndex: if (m_currentMode != Playback) return;
\* m_currentFrameIndex = frameIndex
SetCurrentFrameIndex(frameIndex) ==
    /\ bpc = "idle"
    /\ bop' = [op |-> "setIndex", arg |-> "null", index |-> frameIndex,
               wasActive |-> rb_active, fromMode |-> rb_currentMode]
    /\ IF rb_currentMode # "Playback"
       THEN /\ bpc' = "return"
            /\ UNCHANGED rb_currentFrameIndex
       ELSE /\ bpc' = "sci_notify"
            /\ rb_currentFrameIndex' = frameIndex
    /\ UNCHANGED << rb_currentMode, rb_active, rb_dataLoader,
                    rb_recordingManager, rb_currentFrameData, rb_frameCache,
                    rb_liveBufferThread, rb_stopBuffering, rb_liveFrameBuffer,
                    rb_liveEventBuffer, lpc >>
    /\ UNCHANGED modeUnchanged
    /\ UNCHANGED notBuffer

\* if (m_dataLoader) m_dataLoader->notifyFrameChanged(frameIndex), which
\* passes the position to the event loaders once the data is ready
SciNotify ==
    /\ bpc = "sci_notify"
    /\ ld_notified' = IF rb_dataLoader # "null" /\ ld_dataReady
                      THEN bop.index ELSE ld_notified
    /\ bpc' = "sci_synth"
    /\ UNCHANGED << rb_currentMode, rb_active, rb_dataLoader,
                    rb_recordingManager, rb_currentFrameIndex,
                    rb_currentFrameData, rb_frameCache, rb_liveBufferThread,
                    rb_stopBuffering, rb_liveFrameBuffer, rb_liveEventBuffer,
                    bop, lpc, lslot, unified, mgr_recording, latestFrames,
                    latestEvents, ld_dataReady, h_tick, h_emitted >>
    /\ UNCHANGED rb_lastFrameCount
    /\ UNCHANGED notBuffer

\* under m_currentDataMutex: m_currentFrameData = createUnifiedFrame(...)
SciSynthesize ==
    /\ bpc = "sci_synth"
    /\ rb_currentFrameData' = CreateUnifiedFrame(bop.index)
    /\ bpc' = "sci_emit"
    /\ UNCHANGED << rb_currentMode, rb_active, rb_dataLoader,
                    rb_recordingManager, rb_currentFrameIndex, rb_frameCache,
                    rb_liveBufferThread, rb_stopBuffering, rb_liveFrameBuffer,
                    rb_liveEventBuffer, bop, lpc >>
    /\ UNCHANGED modeUnchanged
    /\ UNCHANGED notBuffer

\* emit frameDataUpdated(frameIndex)
SciEmit ==
    /\ bpc = "sci_emit"
    /\ h_emitted' = bop.index
    /\ bpc' = "return"
    /\ UNCHANGED << rb_currentMode, rb_active, rb_dataLoader,
                    rb_recordingManager, rb_currentFrameIndex,
                    rb_currentFrameData, rb_frameCache, rb_liveBufferThread,
                    rb_stopBuffering, rb_liveFrameBuffer, rb_liveEventBuffer,
                    bop, lpc, lslot, unified, mgr_recording, latestFrames,
                    latestEvents, ld_dataReady, ld_notified, h_tick >>
    /\ UNCHANGED rb_lastFrameCount
    /\ UNCHANGED notBuffer

\* the variables the monitor thread never writes
workerUnchanged == << rb_currentMode, rb_active, rb_dataLoader,
                      rb_recordingManager, rb_frameCache, rb_stopBuffering,
                      bpc, bop, mgr_recording, latestFrames, latestEvents,
                      ld_dataReady, ld_notified, h_emitted >>

\* while (!m_stopBuffering && manager && manager->isRecording()): the thread
\* ends, or the 33 ms interval has elapsed and a tick begins.  (An iteration
\* before the interval has elapsed only reads the buffer health and sleeps.)
LiveLoop ==
    /\ lpc = "loop"
    /\ IF ~rb_stopBuffering /\ rb_recordingManager # "null" /\ mgr_recording
       THEN /\ rb_currentFrameIndex < MaxTicks
            /\ lpc' = "frames"
            /\ h_tick' = [NoTick EXCEPT !.started = TRUE, !.active = TRUE]
            /\ UNCHANGED rb_liveBufferThread
       ELSE /\ lpc' = "none"
            /\ rb_liveBufferThread' = "finished"
            /\ h_tick' = NoTick
    /\ UNCHANGED << rb_currentFrameIndex, rb_currentFrameData,
                    rb_liveFrameBuffer, rb_liveEventBuffer, lslot, unified >>
    /\ UNCHANGED workerUnchanged
    /\ UNCHANGED rb_lastFrameCount
    /\ UNCHANGED notBuffer

RECURSIVE PushAll(_, _, _)
\* the pushes of one processLive...Data call: cameras 0 and 1 in order,
\* each one if the manager has data for it
PushAll(buffer, cams, entry) ==
    IF cams = << >> THEN buffer
    ELSE PushAll(IF entry[Head(cams)].isValid
                 THEN Append(buffer, entry[Head(cams)]) ELSE buffer,
                 Tail(cams), entry)

\* RecordingManager::getLiveFrameData, and the BufferedFrameData built from it
LiveFrameEntry ==
    [c \in Cams |->
        [cameraId |-> c, image |-> latestFrames[c],
         isValid |-> mgr_recording /\ latestFrames[c] # EmptyMat]]

\* RecordingManager::getLiveEventData, and the BufferedEventData built from it
LiveEventEntry ==
    [c \in Cams |->
        [cameraId |-> c, image |-> cvMatToQImage(latestEvents[c]),
         isValid |-> mgr_recording /\ latestEvents[c] # EmptyMat]]

\* processLiveFrameData, under m_liveBufferMutex
LiveProcessFrames ==
    /\ lpc = "frames"
    /\ rb_liveFrameBuffer' = PushAll(rb_liveFrameBuffer, << 0, 1 >>,
                                     LiveFrameEntry)
    /\ h_tick' = [h_tick EXCEPT
                    !.frames = { c \in Cams : LiveFrameEntry[c].isValid }]
    /\ lpc' = "events"
    /\ UNCHANGED << rb_currentFrameIndex, rb_currentFrameData,
                    rb_liveBufferThread, rb_liveEventBuffer, lslot, unified >>
    /\ UNCHANGED workerUnchanged
    /\ UNCHANGED rb_lastFrameCount
    /\ UNCHANGED notBuffer

\* processLiveEventData, under m_liveBufferMutex
LiveProcessEvents ==
    /\ lpc = "events"
    /\ rb_liveEventBuffer' = PushAll(rb_liveEventBuffer, << 0, 1 >>,
                                     LiveEventEntry)
    /\ h_tick' = [h_tick EXCEPT
                    !.events = { c \in Cams : LiveEventEntry[c].isValid }]
    /\ lpc' = "cleanup"
    /\ UNCHANGED << rb_currentFrameIndex, rb_currentFrameData,
                    rb_liveBufferThread, rb_liveFrameBuffer, lslot, unified >>
    /\ UNCHANGED workerUnchanged
    /\ UNCHANGED rb_lastFrameCount
    /\ UNCHANGED notBuffer

\* mutant of TrimOldest: the bound is never enforced
TrimOldest_Never(buffer) == buffer

\* cleanupOldFrames: while (size > MAX_LIVE_BUFFER_SIZE) pop()
TrimOldest(buffer) == LastN(buffer, MAX_LIVE_BUFFER_SIZE)

\* size_t frameDiff = currentFrameCount - m_lastFrameCount: unsigned
FrameDiff(currentFrameCount, lastFrameCount) ==
    (currentFrameCount - lastFrameCount) % (2 ^ SizeBits)

\* updateFPS and cleanupOldFrames (under m_liveBufferMutex); then the
\* worker enters createUnifiedFrame(m_currentFrameIndex, now).  updateFPS
\* takes its branch when more than 1000 ms have passed since m_lastFrameTime
\* (a tick comes every 33 ms or later): frameDiff is computed and
\* m_lastFrameCount = currentFrameCount.
LiveCleanup ==
    /\ lpc = "cleanup"
    /\ \E secondElapsed \in BOOLEAN :
          IF secondElapsed
          THEN /\ h_tick' =
                    [h_tick EXCEPT
                       !.fps = [current |-> rb_currentFrameIndex,
                                last |-> rb_lastFrameCount,
                                frameDiff |->
                                    FrameDiff(rb_currentFrameIndex,
                                              rb_lastFrameCount)]]
               /\ rb_lastFrameCount' = rb_currentFrameIndex
          ELSE UNCHANGED << h_tick, rb_lastFrameCount >>
    /\ rb_liveFrameBuffer' = TrimOldest(rb_liveFrameBuffer)
    /\ rb_liveEventBuffer' = TrimOldest(rb_liveEventBuffer)
    /\ unified' = UnifiedHeader(rb_currentFrameIndex)
    /\ lslot' = 0
    /\ lpc' = "unify"
    /\ UNCHANGED << rb_currentFrameIndex, rb_currentFrameData,
                    rb_liveBufferThread >>
    /\ UNCHANGED workerUnchanged
    /\ UNCHANGED notBuffer

\* createUnifiedFrame in the monitor thread, one slot per step (each getter
\* reads m_active and takes m_liveBufferMutex on its own); after the last
\* slot the result becomes m_currentFrameData, the signals are emitted and
\* m_currentFrameIndex++ is done
LiveUnify ==
    /\ lpc = "unify"
    /\ LET filled ==
             IF lslot < 2
             THEN [unified EXCEPT !.frameData =
                      Append(@, FrameSlot(lslot, unified.frameIndex))]
             ELSE [unified EXCEPT !.eventData =
                      Append(@, EventSlot(lslot - 2, unified.frameIndex))]
       IN  IF lslot < 3
           THEN /\ unified' = filled
                /\ lslot' = lslot + 1
                /\ h_tick' = [h_tick EXCEPT !.active = @ /\ rb_active]
                /\ UNCHANGED << rb_currentFrameData, rb_currentFrameIndex,
                                lpc >>
           ELSE /\ rb_currentFrameData' = filled
                /\ rb_currentFrameIndex' = rb_currentFrameIndex + 1
                /\ unified' = DefaultUnified
                /\ lslot' = 0
                /\ h_tick' = [h_tick EXCEPT !.active = @ /\ rb_active,
                                            !.done = TRUE]
                /\ lpc' = "loop"
    /\ UNCHANGED << rb_liveBufferThread, rb_liveFrameBuffer,
                    rb_liveEventBuffer >>
    /\ UNCHANGED workerUnchanged
    /\ UNCHANGED rb_lastFrameCount
    /\ UNCHANGED notBuffer

\* the variables the environment of the RecordingBuffer never writes
envUnchanged == << rb_currentMode, rb_active, rb_dataLoader,
                   rb_recordingManager, rb_currentFrameIndex,
                   rb_currentFrameData, rb_frameCache, rb_liveBufferThread,
                   rb_stopBuffering, rb_liveFrameBuffer, rb_liveEventBuffer,
                   bpc, bop, lpc, lslot, unified, ld_notified, h_tick,
                   h_emitted ,
                   rb_lastFrameCount >>

\* RecordingManager::startRecording / stopRecording, seen through isRecording()
ManagerSetRecording(on) ==
    /\ mgr_recording # on
    /\ mgr_recording' = on
    /\ UNCHANGED << latestFrames, latestEvents, ld_dataReady >>
    /\ UNCHANGED envUnchanged
    /\ UNCHANGED notBuffer

\* a frame camera delivers its first frame: getLatestFrame has an image
FrameDelivered(c) ==
    /\ latestFrames[c] = EmptyMat
    /\ latestFrames' = [latestFrames EXCEPT ![c] = CameraMat]
    /\ UNCHANGED << mgr_recording, latestEvents, ld_dataReady >>
    /\ UNCHANGED envUnchanged
    /\ UNCHANGED notBuffer

\* an event camera's streaming worker has generated its first frame
EventDelivered(c) ==
    /\ latestEvents[c] = EmptyMat
    /\ latestEvents' = [latestEvents EXCEPT ![c] = CameraMat]
    /\ UNCHANGED << mgr_recording, latestFrames, ld_dataReady >>
    /\ UNCHANGED envUnchanged
    /\ UNCHANGED notBuffer

\* the loader's thread has finished reading the recording
LoaderReady ==
    /\ ~ld_dataReady
    /\ ld_dataReady' = TRUE
    /\ UNCHANGED << mgr_recording, latestFrames, latestEvents >>
    /\ UNCHANGED envUnchanged
    /\ UNCHANGED notBuffer

NextBuffer ==
    \/ \E arg \in { "null", "manager" } : BeginCall("setLive", arg)
    \/ \E arg \in { "null", "loader" } : BeginCall("setPlayback", arg)
    \/ BeginCall("stop", "null")
    \/ StopSignal
    \/ StopJoin
    \/ StopClear
    \/ Establish
    \/ Activate
    \/ Return
    \/ \E i \in IndexInputs : SetCurrentFrameIndex(i)
    \/ SciNotify
    \/ SciSynthesize
    \/ SciEmit
    \/ LiveLoop
    \/ LiveProcessFrames
    \/ LiveProcessEvents
    \/ LiveCleanup
    \/ LiveUnify
    \/ \E on \in BOOLEAN : ManagerSetRecording(on)
    \/ \E c \in Cams : FrameDelivered(c)
    \/ \E c \in EventSources : EventDelivered(c)
    \/ LoaderReady

(***************************************************************************)
(* EventCameraManager live streaming (src/src/event_camera_manager.cpp,    *)
(* lines 289-521): one eventStreamingWorker thread per camera fills the    *)
(* camera's frame buffer; getLatestEventFrame reads it from another        *)
(* thread; startLiveStreaming and stopLiveStreaming are called by one      *)
(* thread.                                                                 *)
(***************************************************************************)
\* the opened event cameras (m_cameras)
EventCams == { 0, 1 }

\* no frame generated yet in this streaming session
NoWindow == [drawn |-> 0, cleared |-> -1]

InitStream ==
    /\ m_liveStreaming = FALSE
    /\ m_liveEventBuffers = [c \in EventCams |-> << >>]
    /\ m_eventBufferMutexes = [c \in EventCams |-> "free"]
    /\ m_eventFrameCounters = [c \in EventCams |-> 0]
    /\ spc = [c \in EventCams |-> "none"]
    /\ sframe = [c \in EventCams |-> -1]
    /\ eventBuffer = [c \in EventCams |-> 0]
    /\ h_lastTick = [c \in EventCams |-> "none"]
    /\ epc = "idle"
    /\ readerAt = -1
    /\ streamSessions = 0
    /\ h_window = [c \in EventCams |-> NoWindow]

\* startLiveStreaming with cameras opened and no streaming in progress: the
\* buffers are emptied, the counters reset, m_liveStreaming set and one
\* worker per camera started.  (With streaming in progress it returns true
\* and changes nothing.)
StartLiveStreaming ==
    /\ epc = "idle"
    /\ ~m_liveStreaming
    /\ streamSessions < MaxStreamSessions
    /\ m_liveEventBuffers' = [c \in EventCams |-> << >>]
    /\ m_eventFrameCounters' = [c \in EventCams |-> 0]
    /\ m_liveStreaming' = TRUE
    /\ spc' = [c \in EventCams |-> "loop"]
    /\ eventBuffer' = [c \in EventCams |-> 0]
    /\ h_lastTick' = [c \in EventCams |-> "none"]
    /\ streamSessions' = streamSessions + 1
    /\ h_window' = [c \in EventCams |-> NoWindow]
    /\ UNCHANGED << m_eventBufferMutexes, sframe, epc, readerAt >>
    /\ UNCHANGED notStream

\* stopLiveStreaming: if (!m_liveStreaming) return; m_liveStreaming = false
StopLiveStreaming ==
    /\ epc = "idle"
    /\ m_liveStreaming
    /\ m_liveStreaming' = FALSE
    /\ epc' = "stop_join"
    /\ UNCHANGED << m_liveEventBuffers, m_eventBufferMutexes,
                    m_eventFrameCounters, spc, sframe, eventBuffer,
                    h_lastTick, readerAt, streamSessions, h_window >>
    /\ UNCHANGED notStream

\* the joins of stopLiveStreaming, then the clearing of the buffers, the
\* mutexes and the counters.  No lock is taken: a mutex that
\* getLatestEventFrame still holds is destroyed with the others (the reader
\* then works on freed memory; if the program goes on, the manager holds no
\* buffer and no mutex, and a crash ends the behaviour here).
StopLiveStreamingJoin ==
    /\ epc = "stop_join"
    /\ \A c \in EventCams : spc[c] = "finished"
    /\ spc' = [c \in EventCams |-> "none"]
    /\ m_liveEventBuffers' = [c \in EventCams |-> << >>]
    /\ m_eventBufferMutexes' = [c \in EventCams |-> "free"]
    /\ m_eventFrameCounters' = [c \in EventCams |-> 0]
    /\ epc' = "idle"
    /\ UNCHANGED << m_liveStreaming, sframe, eventBuffer, h_lastTick,
                    readerAt, streamSessions, h_window >>
    /\ UNCHANGED notStream

\* the callback added with cd().add_callback, run by the camera's thread
\* while the worker exists: eventBuffer.push_back for each event delivered
EventCallback(c) ==
    /\ spc[c] \in { "loop", "push", "trim" }
    /\ eventBuffer[c] < MaxWindowEvents
    /\ eventBuffer' = [eventBuffer EXCEPT ![c] = @ + 1]
    /\ UNCHANGED << m_liveStreaming, m_liveEventBuffers, m_eventBufferMutexes,
                    m_eventFrameCounters, spc, sframe, h_lastTick, epc,
                    readerAt, streamSessions, h_window >>
    /\ UNCHANGED notStream

\* mutant of HasEvents: a frame is generated from an empty window too
HasEvents_Always(n) == TRUE

\* if (!eventBuffer.empty())
HasEvents(n) == n > 0

\* while (m_liveStreaming): the worker leaves, or the frame interval has
\* elapsed with events accumulated: generateEventFrame and
\* frameData.frameIndex = m_eventFrameCounters[cameraId]++.  (An iteration
\* before the interval has elapsed only sleeps.)
StreamGenerate(c) ==
    /\ spc[c] = "loop"
    /\ IF ~m_liveStreaming
       THEN /\ spc' = [spc EXCEPT ![c] = "finished"]
            /\ UNCHANGED << sframe, m_eventFrameCounters, h_lastTick,
                            h_window >>
       ELSE /\ HasEvents(eventBuffer[c])
            /\ m_eventFrameCounters[c] < MaxEventFrames
            /\ sframe' = [sframe EXCEPT ![c] = m_eventFrameCounters[c]]
            /\ m_eventFrameCounters' =
                  [m_eventFrameCounters EXCEPT ![c] = @ + 1]
            /\ h_lastTick' = [h_lastTick EXCEPT ![c] = "generated"]
            /\ h_window' = [h_window EXCEPT
                               ![c] = [drawn |-> eventBuffer[c],
                                       cleared |-> -1]]
            /\ spc' = [spc EXCEPT ![c] = "push"]
    /\ UNCHANGED << m_liveStreaming, m_liveEventBuffers, m_eventBufferMutexes,
                    eventBuffer, epc, readerAt, streamSessions >>
    /\ UNCHANGED notStream

\* generateEventFrame or frame.clone() throws (cv::Exception, bad_alloc): the
\* catch that encloses the whole while loop logs the error, the callback is
\* removed and the thread function returns
StreamError(c) ==
    /\ spc[c] = "loop"
    /\ m_liveStreaming
    /\ HasEvents(eventBuffer[c])
    /\ spc' = [spc EXCEPT ![c] = "finished"]
    /\ h_lastTick' = [h_lastTick EXCEPT ![c] = "error"]
    /\ UNCHANGED << m_liveStreaming, m_liveEventBuffers, m_eventBufferMutexes,
                    m_eventFrameCounters, sframe, eventBuffer, epc, readerAt,
                    streamSessions, h_window >>
    /\ UNCHANGED notStream

\* the frame interval has elapsed with eventBuffer empty: only
\* lastFrameTime = currentTime, then the sleep
StreamSkip(c) ==
    /\ spc[c] = "loop"
    /\ m_liveStreaming
    /\ ~HasEvents(eventBuffer[c])
    /\ h_lastTick' = [h_lastTick EXCEPT ![c] = "skipped"]
    /\ UNCHANGED << m_liveStreaming, m_liveEventBuffers, m_eventBufferMutexes,
                    m_eventFrameCounters, spc, sframe, eventBuffer, epc,
                    readerAt, streamSessions, h_window >>
    /\ UNCHANGED notStream

\* std::lock_guard lock(*m_eventBufferMutexes[cameraId]);
\* m_liveEventBuffers[cameraId].push(frameData)
StreamPush(c) ==
    /\ spc[c] = "push"
    /\ m_eventBufferMutexes[c] = "free"
    /\ m_eventBufferMutexes' = [m_eventBufferMutexes EXCEPT ![c] = "worker"]
    /\ m_liveEventBuffers' =
          [m_liveEventBuffers EXCEPT ![c] = Append(@, sframe[c])]
    /\ spc' = [spc EXCEPT ![c] = "trim"]
    /\ UNCHANGED << m_liveStreaming, m_eventFrameCounters, sframe,
                    eventBuffer, h_lastTick, epc, readerAt, streamSessions, h_window >>
    /\ UNCHANGED notStream

\* mutant of TrimEventBuffer: the loop stops one frame early
TrimEventBuffer_OffByOne(buffer) == LastN(buffer, MAX_EVENT_BUFFER_SIZE + 1)

\* while (size() > MAX_EVENT_BUFFER_SIZE) pop()
TrimEventBuffer(buffer) == LastN(buffer, MAX_EVENT_BUFFER_SIZE)

\* eventBuffer.clear(): whatever the vector holds by then is dropped
EventsAfterClear(n) == 0

\* the trimming loop, the release of the mutex and eventBuffer.clear()
StreamTrim(c) ==
    /\ spc[c] = "trim"
    /\ m_liveEventBuffers' =
          [m_liveEventBuffers EXCEPT ![c] = TrimEventBuffer(@)]
    /\ m_eventBufferMutexes' = [m_eventBufferMutexes EXCEPT ![c] = "free"]
    /\ sframe' = [sframe EXCEPT ![c] = -1]
    /\ eventBuffer' = [eventBuffer EXCEPT ![c] = EventsAfterClear(@)]
    /\ h_window' = [h_window EXCEPT ![c].cleared = eventBuffer[c]]
    /\ spc' = [spc EXCEPT ![c] = "loop"]
    /\ UNCHANGED << m_liveStreaming, m_eventFrameCounters, h_lastTick, epc,
                    readerAt, streamSessions >>
    /\ UNCHANGED notStream

\* getLatestEventFrame(cameraId) up to its lock_guard: m_liveStreaming is
\* set and the mutex is taken
GetLatestEventFrame(c) ==
    /\ readerAt = -1
    /\ m_liveStreaming
    /\ m_eventBufferMutexes[c] = "free"
    /\ m_eventBufferMutexes' = [m_eventBufferMutexes EXCEPT ![c] = "reader"]
    /\ readerAt' = c
    /\ UNCHANGED << m_liveStreaming, m_liveEventBuffers, m_eventFrameCounters,
                    spc, sframe, eventBuffer, h_lastTick, epc,
                    streamSessions, h_window >>
    /\ UNCHANGED notStream

\* getLatestEventFrame: back() is copied and the mutex released
GetLatestEventFrameReturn ==
    /\ readerAt # -1
    /\ m_eventBufferMutexes' =
          [m_eventBufferMutexes EXCEPT
              ![readerAt] = IF @ = "reader" THEN "free" ELSE @]
    /\ readerAt' = -1
    /\ UNCHANGED << m_liveStreaming, m_liveEventBuffers, m_eventFrameCounters,
                    spc, sframe, eventBuffer, h_lastTick, epc,
                    streamSessions, h_window >>
    /\ UNCHANGED notStream

NextStream ==
    \/ StartLiveStreaming
    \/ StopLiveStreaming
    \/ StopLiveStreamingJoin
    \/ \E c \in EventCams : EventCallback(c)
    \/ \E c \in EventCams : StreamGenerate(c)
    \/ \E c \in EventCams : StreamSkip(c)
    \/ \E c \in EventCams : StreamError(c)
    \/ \E c \in EventCams : StreamPush(c)
    \/ \E c \in EventCams : StreamTrim(c)
    \/ \E c \in EventCams : GetLatestEventFrame(c)
    \/ GetLatestEventFrameReturn

(***************************************************************************)
(* RecordingDataLoader (src/src/video_player_mockup.cpp): loadRecording    *)
(* starts loadDataWorker on a background thread; the worker fills m_data   *)
(* and queues a closure that the main thread's event loop runs to publish  *)
(* the result (m_dataReady, loadingFinished).                              *)
(*                                                                         *)
(* A file name is the sequence of its character codes, so that the         *)
(* comparisons of std::string and the digit scan of extract_frame_index    *)
(* are computed and not assumed.  All files of one camera directory share  *)
(* the directory prefix, which neither find_last_of("/\\") nor a < b on    *)
(* the full paths can tell apart from its absence.                         *)
(***************************************************************************)
\* The image files of the test directories: frame_0.jpg, frame_1.jpg,
\* frame_2.jpg, frame_02.jpg and frame_10.jpg ("frame_" is 102 114 97 109
\* 101 95, ".jpg" is 46 106 112 103, the digits "0" to "9" are 48 to 57).
FrameFiles ==
    LET name(digits) ==
            << 102, 114, 97, 109, 101, 95 >> \o digits
                \o << 46, 106, 112, 103 >>
    IN  [ f0 |-> name(<< 48 >>), f1 |-> name(<< 49 >>), f2 |-> name(<< 50 >>),
          f02 |-> name(<< 48, 50 >>), f10 |-> name(<< 49, 48 >>) ]

\* name.find_last_of('.'): 0 stands for npos
RECURSIVE FindLastDot(_, _)
FindLastDot(name, i) ==
    IF i = 0 THEN 0
    ELSE IF name[i] = 46 THEN i
    ELSE FindLastDot(name, i - 1)

\* while (i >= 0 && !isdigit(name[i])) --i;   (positions are 1-based here)
RECURSIVE SkipNonDigits(_, _)
SkipNonDigits(name, i) ==
    IF i >= 1 /\ name[i] \notin 48 .. 57 THEN SkipNonDigits(name, i - 1) ELSE i

\* while (i >= 0 && isdigit(name[i])) --i;
RECURSIVE SkipDigits(_, _)
SkipDigits(name, i) ==
    IF i >= 1 /\ name[i] \in 48 .. 57 THEN SkipDigits(name, i - 1) ELSE i

\* std::stoll on a run of decimal digits
RECURSIVE Stoll(_)
Stoll(num) ==
    IF num = << >> THEN 0
    ELSE 10 * Stoll(SubSeq(num, 1, Len(num) - 1)) + (num[Len(num)] - 48)

extract_frame_index(pathStr) ==
    LET dotPos == FindLastDot(pathStr, Len(pathStr))
        name == IF dotPos # 0 THEN SubSeq(pathStr, 1, dotPos - 1)
                ELSE pathStr
        end == SkipNonDigits(name, Len(name))
        i == SkipDigits(name, end)
    IN  IF end < 1 THEN -1 ELSE Stoll(SubSeq(name, i + 1, end))

\* operator< of std::string: lexicographic on the character codes, a proper
\* prefix is smaller
RECURSIVE StringLess(_, _)
StringLess(a, b) ==
    IF b = << >> THEN FALSE
    ELSE IF a = << >> THEN TRUE
    ELSE IF Head(a) # Head(b) THEN Head(a) < Head(b)
    ELSE StringLess(Tail(a), Tail(b))

\* the comparator handed to std::sort in loadFrameCameraData
FrameFileLess(a, b) ==
    LET ia == extract_frame_index(a)
        ib == extract_frame_index(b)
    IN  IF ia = -1 \/ ib = -1 THEN StringLess(a, b)
        ELSE IF ia # ib THEN ia < ib
        ELSE StringLess(a, b)

RECURSIVE InsertSorted(_, _)
InsertSorted(sorted, f) ==
    IF sorted = << >> THEN << f >>
    ELSE IF FrameFileLess(f, Head(sorted)) THEN << f >> \o sorted
    ELSE << Head(sorted) >> \o InsertSorted(Tail(sorted), f)

\* std::sort(image_files.begin(), image_files.end(), comparator): on the
\* name sets used here the comparator is a strict total order (every name
\* has a digit run and the names are distinct), so the sorted sequence is
\* unique and any sorting procedure computes it.
RECURSIVE SortFiles(_)
SortFiles(files) ==
    IF files = << >> THEN << >>
    ELSE InsertSorted(SortFiles(Tail(files)), Head(files))

\* The recording directories handed to loadRecording.  kind: "missing" (the
\* path does not exist), "unreadable" (std::filesystem throws on it),
\* "present".  frames[cam]: the image files of frame_cam<cam> in the order
\* directory_iterator yields them.  events[cam]: "absent" (no ebv_cam_<cam>
\* file), "ok" (file whose EventCameraLoader is valid), "bad" (file whose
\* EventCameraLoader fails to initialise).
EmptyDir(kind) ==
    [ kind |-> kind, frames |-> [ c \in Cams |-> << >> ],
      events |-> [ c \in Cams |-> "absent" ] ]

MissingDir == EmptyDir("missing")

UnreadableDir == EmptyDir("unreadable")

FrameOnlyDir ==
    [ EmptyDir("present") EXCEPT
        !.frames[0] = << FrameFiles.f0, FrameFiles.f1, FrameFiles.f2 >> ]

\* the directory of tests/test_recording_loader_framesort.cpp
SortDir ==
    [ EmptyDir("present") EXCEPT
        !.frames[0] = << FrameFiles.f10, FrameFiles.f2, FrameFiles.f1,
                          FrameFiles.f02 >>,
        !.frames[1] = << FrameFiles.f02, FrameFiles.f1, FrameFiles.f10,
                          FrameFiles.f2 >> ]

EventDirs ==
    { [ EmptyDir("present") EXCEPT !.events = ev ] :
        ev \in { [ c \in Cams |-> IF c = 0 THEN "ok" ELSE "bad" ],
                 [ c \in Cams |-> IF c = 0 THEN "absent" ELSE "ok" ] } }

Directories ==
    { MissingDir, UnreadableDir, FrameOnlyDir, SortDir } \cup EventDirs

ReadIndices == { 0, 1 }

\* EventCameraData after vector::resize (default-constructed): no loader,
\* isValid false.  hint and cached are the state of the loader the entry
\* owns (the index last handed to setCurrentFrameIndex, -1 while there
\* was no such call; the indices held in its frame cache).
DefaultEventCam ==
    [ hasLoader |-> FALSE, isValid |-> FALSE, hint |-> -1, cached |-> {} ]

\* RecordingData{}
EmptyRecordingData ==
    [ frameCams |-> << >>, eventCams |-> << >>, totalFrames |-> 1,
      isValid |-> FALSE ]

\* no getEventCameraFrame call since loadRecording
NoEventFrameCall == [ camera |-> -1, image |-> NullImage ]

InitLoader ==
    /\ m_data = EmptyRecordingData
    /\ m_dataReady = FALSE
    /\ m_loading = FALSE
    /\ m_abortLoading = FALSE
    /\ loadedDir = MissingDir
    /\ lwpc = "none"
    /\ lwcam = 0
    /\ lmpc = "idle"
    /\ pendingDir = MissingDir
    /\ eventLoopQueue = << >>
    /\ h_loadingFinished = "none"
    /\ h_eventFrame = NoEventFrameCall
    /\ loads = 0

\* loadRecording, up to the join inside abortLoading
LoadRecordingAbort(dir) ==
    /\ lmpc = "idle"
    /\ loads < MaxLoads
    /\ m_abortLoading' = TRUE
    /\ pendingDir' = dir
    /\ lmpc' = "join"
    /\ UNCHANGED << m_data, m_dataReady, m_loading, loadedDir, lwpc, lwcam,
                    eventLoopQueue, h_loadingFinished, h_eventFrame, loads >>
    /\ UNCHANGED notLoader

\* loadRecording, from the return of join: reset the state and start the
\* worker thread
LoadRecordingStart ==
    /\ lmpc = "join"
    /\ lwpc \in { "none", "done" }
    /\ m_data' = EmptyRecordingData
    /\ m_dataReady' = FALSE
    /\ m_abortLoading' = FALSE
    /\ m_loading' = TRUE
    /\ loadedDir' = pendingDir
    /\ lwpc' = "frames"
    /\ lwcam' = 0
    /\ lmpc' = "idle"
    /\ h_loadingFinished' = "none"
    /\ h_eventFrame' = NoEventFrameCall
    /\ loads' = loads + 1
    /\ UNCHANGED << pendingDir, eventLoopQueue >>
    /\ UNCHANGED notLoader

\* loadFrameCameraData: nothing is collected unless the camera directory
\* exists; what is collected is sorted
LoadFrameCameraData(dir, camera) ==
    IF dir.kind = "present" THEN SortFiles(dir.frames[camera]) ELSE << >>

\* loadEventCameraData
LoadEventCameraData(dir, camera) ==
    IF dir.kind = "present" /\ dir.events[camera] # "absent"
    THEN [ DefaultEventCam EXCEPT !.hasLoader = TRUE,
                                  !.isValid = (dir.events[camera] = "ok") ]
    ELSE DefaultEventCam

\* calculateTotalFrames, with one estimated frame per valid event file
CalculateTotalFrames(data) ==
    LET counts == { Len(data.frameCams[i]) : i \in DOMAIN data.frameCams }
                    \cup { IF data.eventCams[i].isValid THEN 1 ELSE 0 :
                             i \in DOMAIN data.eventCams }
        most == CHOOSE n \in counts \cup { 0 } :
                    \A k \in counts \cup { 0 } : k <= n
    IN  IF most = 0 THEN 1 ELSE most

\* loadDataWorker: one iteration of the frame camera loop (preceded, for
\* camera 0, by frameCams.resize(2) and followed, for camera 1, by
\* eventCams.resize(2))
WorkerLoadFrames ==
    /\ lwpc = "frames"
    /\ LET resized == IF lwcam = 0 THEN << << >>, << >> >>
                      ELSE m_data.frameCams
       IN  IF m_abortLoading
           THEN /\ m_data' = [ m_data EXCEPT !.frameCams = resized ]
                /\ lwpc' = "done"
                /\ UNCHANGED << lwcam, eventLoopQueue >>
           ELSE IF loadedDir.kind = "unreadable"
           THEN /\ m_data' = [ m_data EXCEPT !.frameCams = resized ]
                /\ lwpc' = "done"
                /\ eventLoopQueue' = Append(eventLoopQueue, "failure")
                /\ UNCHANGED lwcam
           ELSE /\ m_data' =
                      [ m_data EXCEPT
                          !.frameCams =
                              [ resized EXCEPT
                                  ![lwcam + 1] =
                                      LoadFrameCameraData(loadedDir, lwcam) ],
                          !.eventCams =
                              IF lwcam = 1
                              THEN << DefaultEventCam, DefaultEventCam >>
                              ELSE @ ]
                /\ IF lwcam = 1
                   THEN lwpc' = "events" /\ lwcam' = 0
                   ELSE lwpc' = "frames" /\ lwcam' = 1
                /\ UNCHANGED eventLoopQueue
    /\ UNCHANGED << m_dataReady, m_loading, m_abortLoading, loadedDir, lmpc,
                    pendingDir, h_loadingFinished, h_eventFrame, loads >>
    /\ UNCHANGED notLoader

\* loadDataWorker: one iteration of the event camera loop
WorkerLoadEvents ==
    /\ lwpc = "events"
    /\ IF m_abortLoading
       THEN /\ lwpc' = "done"
            /\ UNCHANGED << m_data, lwcam >>
       ELSE /\ m_data' =
                  [ m_data EXCEPT
                      !.eventCams[lwcam + 1] =
                          LoadEventCameraData(loadedDir, lwcam) ]
            /\ IF lwcam = 1
               THEN lwpc' = "finish" /\ lwcam' = 0
               ELSE lwpc' = "events" /\ lwcam' = 1
    /\ UNCHANGED << m_dataReady, m_loading, m_abortLoading, loadedDir, lmpc,
                    pendingDir, eventLoopQueue, h_loadingFinished,
                    h_eventFrame, loads >>
    /\ UNCHANGED notLoader

\* loadDataWorker: totals, m_data.isValid, and the queued completion
WorkerFinish ==
    /\ lwpc = "finish"
    /\ m_data' = [ m_data EXCEPT !.totalFrames = CalculateTotalFrames(m_data),
                                 !.isValid = TRUE ]
    /\ eventLoopQueue' = Append(eventLoopQueue, "success")
    /\ lwpc' = "done"
    /\ UNCHANGED << m_dataReady, m_loading, m_abortLoading, loadedDir, lwcam,
                    lmpc, pendingDir, h_loadingFinished, h_eventFrame, loads >>
    /\ UNCHANGED notLoader

\* the main thread's event loop runs the oldest queued closure
RunQueuedCompletion ==
    /\ lmpc = "idle"
    /\ eventLoopQueue # << >>
    /\ eventLoopQueue' = Tail(eventLoopQueue)
    /\ IF Head(eventLoopQueue) = "success"
       THEN /\ m_dataReady' = TRUE
            /\ h_loadingFinished' = "true"
            /\ UNCHANGED m_data
       ELSE /\ m_dataReady' = FALSE
            /\ m_data' = [ m_data EXCEPT !.isValid = FALSE ]
            /\ h_loadingFinished' = "false"
    /\ m_loading' = FALSE
    /\ UNCHANGED << m_abortLoading, loadedDir, lwpc, lwcam, lmpc, pendingDir,
                    h_eventFrame, loads >>
    /\ UNCHANGED notLoader

EventCamUsable_LoaderOnly(eventCam) == eventCam.hasLoader

\* if (!eventCam.loader || !eventCam.isValid) return {};
EventCamUsable(eventCam) == eventCam.hasLoader /\ eventCam.isValid

\* the guard chain of getEventCameraFrame, getCachedEventFrames and
\* notifyFrameChanged
EventCamServed(camera) ==
    /\ m_dataReady
    /\ camera < Len(m_data.eventCams)
    /\ EventCamUsable(m_data.eventCams[camera + 1])

\* getEventCameraFrame: an empty image, or the frame the camera's loader
\* generates and keeps in its cache.  A call that runs while the worker of
\* a newer load is writing m_data sees the entry before or after that
\* write.
LoaderGetEventCameraFrame(camera, frameIndex) ==
    /\ lmpc = "idle"
    /\ IF EventCamServed(camera)
       THEN /\ h_eventFrame' = [ camera |-> camera, image |-> "frame" ]
            /\ m_data' = [ m_data EXCEPT
                             !.eventCams[camera + 1].cached =
                                 @ \cup { frameIndex } ]
       ELSE /\ h_eventFrame' = [ camera |-> camera, image |-> NullImage ]
            /\ UNCHANGED m_data
    /\ UNCHANGED << m_dataReady, m_loading, m_abortLoading, loadedDir, lwpc,
                    lwcam, lmpc, pendingDir, eventLoopQueue,
                    h_loadingFinished, loads >>
    /\ UNCHANGED notLoader

\* notifyFrameChanged: the prefetch hint goes to the usable loaders only
NotifyFrameChanged(frameIndex) ==
    /\ lmpc = "idle"
    /\ m_dataReady
    /\ m_data' =
          [ m_data EXCEPT
              !.eventCams =
                  [ i \in DOMAIN @ |->
                      IF EventCamUsable(@[i])
                      THEN [ @[i] EXCEPT !.hint = frameIndex ]
                      ELSE @[i] ] ]
    /\ UNCHANGED << m_dataReady, m_loading, m_abortLoading, loadedDir, lwpc,
                    lwcam, lmpc, pendingDir, eventLoopQueue,
                    h_loadingFinished, h_eventFrame, loads >>
    /\ UNCHANGED notLoader

NextLoader ==
    \/ \E dir \in Directories : LoadRecordingAbort(dir)
    \/ LoadRecordingStart
    \/ WorkerLoadFrames
    \/ WorkerLoadEvents
    \/ WorkerFinish
    \/ RunQueuedCompletion
    \/ \E camera \in Cams, frameIndex \in ReadIndices :
          LoaderGetEventCameraFrame(camera, frameIndex)
    \/ \E frameIndex \in ReadIndices : NotifyFrameChanged(frameIndex)

(***************************************************************************)
(* RecordingManager (src/unnamed/part_000, lines 245-494): configure,      *)
(* startRecording, stopRecording and closeDevices, as called from one      *)
(* thread.  The two camera managers are collaborators: the model records   *)
(* which of their methods a call of the RecordingManager invoked, and      *)
(* draws from small sets whether opening or starting them throws.          *)
(***************************************************************************)
\* RecordingConfig: the event file format, the number of entries of
\* eventCameraSerials (0: auto-discovery) and the length of the bias vector
\* given for one bias key (0: none given)
Configs ==
    [ eventFileFormat : { "hdf5", "raw", "badfmt" },
      serials : { 0, 2 },
      biasLen : { 0, 1, 2 } ]

\* what the collaborators do during configure
OpenOutcomes == { "ok", "frame_open_throws", "event_open_throws" }

\* what std::filesystem and the collaborators do during startRecording
StartOutcomes ==
    { "ok", "mkdir_throws", "event_start_throws", "frame_start_throws" }

NoManagerCall ==
    [ op |-> "none", config |-> << >>, configuredBefore |-> FALSE,
      recordingBefore |-> FALSE, ret |-> FALSE, calls |-> << >> ]

InitManager ==
    /\ m_configured = FALSE
    /\ m_recording = FALSE
    /\ ev_recording = FALSE
    /\ fr_writingToDisk = FALSE
    /\ h_call = NoManagerCall

\* validateConfig throws
ValidateConfigThrows(config) == config.eventFileFormat \notin { "raw", "hdf5" }

BiasMismatch_Never(config) == FALSE

\* createEventCameraConfigs throws: with serials given, a non-empty bias
\* vector of another length
BiasMismatch(config) ==
    /\ config.serials # 0
    /\ config.biasLen # 0
    /\ config.biasLen # config.serials

\* The state of a call under way: the manager's two flags, the recording
\* flags of the two camera managers, the value to return and the camera
\* manager methods invoked so far, in the order of the calls.
CallState ==
    [ configured |-> m_configured, recording |-> m_recording,
      eventRecording |-> ev_recording, frameWriting |-> fr_writingToDisk,
      ret |-> FALSE, calls |-> << >> ]

StopRecordingStep_EventFirst(st) ==
    IF ~st.recording THEN st
    ELSE [ st EXCEPT !.recording = FALSE,
                     !.frameWriting = FALSE,
                     !.eventRecording = FALSE,
                     !.calls = @ \o << "event.stopRecording",
                                       "frame.stopRecording",
                                       "event.stopLiveStreaming" >> ]

\* stopRecording
StopRecordingStep(st) ==
    IF ~st.recording THEN st
    ELSE [ st EXCEPT !.recording = FALSE,
                     !.frameWriting = FALSE,
                     !.eventRecording = FALSE,
                     !.calls = @ \o << "frame.stopRecording",
                                       "event.stopRecording",
                                       "event.stopLiveStreaming" >> ]

\* closeDevices
CloseDevicesStep(st) ==
    LET stopped == StopRecordingStep(st)
    IN  [ stopped EXCEPT !.configured = FALSE,
                         !.eventRecording = FALSE,
                         !.frameWriting = FALSE,
                         !.calls = @ \o << "event.closeDevices",
                                           "frame.closeDevices" >> ]

\* configure
ConfigureStep(st, config, outcome) ==
    IF st.recording THEN [ st EXCEPT !.ret = FALSE ]
    ELSE IF ValidateConfigThrows(config)
    THEN [ st EXCEPT !.configured = FALSE, !.ret = FALSE ]
    ELSE LET closed == CloseDevicesStep(st)
             frameOpened ==
                 [ closed EXCEPT
                     !.calls = @ \o << "frame.openAndSetupDevices" >> ]
             eventOpened ==
                 [ frameOpened EXCEPT
                     !.calls = @ \o << "event.openAndSetupDevices" >> ]
         IN  IF outcome = "frame_open_throws" THEN frameOpened
             ELSE IF BiasMismatch(config) THEN frameOpened
             ELSE IF outcome = "event_open_throws" THEN eventOpened
             ELSE [ eventOpened EXCEPT !.configured = TRUE, !.ret = TRUE ]

MayStart_IgnoreConfigured(configured, recording) == ~recording

\* the two early returns of startRecording(outputDirectory)
MayStart(configured, recording) == ~recording /\ configured

\* startRecording(outputDirectory): a camera manager whose startRecording
\* returned is recording
StartRecordingStep(st, outcome) ==
    IF ~MayStart(st.configured, st.recording) THEN [ st EXCEPT !.ret = FALSE ]
    ELSE IF outcome = "mkdir_throws" THEN [ st EXCEPT !.ret = FALSE ]
    ELSE IF outcome = "event_start_throws"
    THEN [ st EXCEPT !.ret = FALSE,
                     !.calls = @ \o << "event.startRecording" >> ]
    ELSE IF outcome = "frame_start_throws"
    THEN [ st EXCEPT !.ret = FALSE,
                     !.eventRecording = TRUE,
                     !.calls = @ \o << "event.startRecording",
                                       "frame.startRecording" >> ]
    ELSE [ st EXCEPT !.ret = TRUE,
                     !.recording = TRUE,
                     !.eventRecording = TRUE,
                     !.frameWriting = TRUE,
                     !.calls = @ \o << "event.startRecording",
                                       "frame.startRecording",
                                       "event.startLiveStreaming" >> ]

\* startRecording(outputDirectory, config)
StartRecordingWithConfigStep(st, config, openOutcome, startOutcome) ==
    LET configured == ConfigureStep(st, config, openOutcome)
    IN  IF ~configured.ret THEN configured
        ELSE StartRecordingStep(configured, startOutcome)

\* the record of a call that returns
CallRecord(op, config, st) ==
    [ op |-> op, config |-> config, configuredBefore |-> m_configured,
      recordingBefore |-> m_recording, ret |-> st.ret, calls |-> st.calls ]

ManagerConfigure(config, outcome) ==
    LET st == ConfigureStep(CallState,
                            config, outcome)
    IN  /\ m_configured' = st.configured
        /\ m_recording' = st.recording
        /\ ev_recording' = st.eventRecording
        /\ fr_writingToDisk' = st.frameWriting
        /\ h_call' = CallRecord("configure", config, st)
        /\ UNCHANGED notManager

ManagerStartRecording(outcome) ==
    LET st == StartRecordingStep(CallState,
                                 outcome)
    IN  /\ m_configured' = st.configured
        /\ m_recording' = st.recording
        /\ ev_recording' = st.eventRecording
        /\ fr_writingToDisk' = st.frameWriting
        /\ h_call' = CallRecord("startRecording", << >>, st)
        /\ UNCHANGED notManager

ManagerStartRecordingWithConfig(config, openOutcome, startOutcome) ==
    LET st == StartRecordingWithConfigStep(
                  CallState,
                  config, openOutcome, startOutcome)
    IN  /\ m_configured' = st.configured
        /\ m_recording' = st.recording
        /\ ev_recording' = st.eventRecording
        /\ fr_writingToDisk' = st.frameWriting
        /\ h_call' = CallRecord("startRecordingWithConfig", config, st)
        /\ UNCHANGED notManager

ManagerStopRecording ==
    LET st == StopRecordingStep(CallState)
    IN  /\ m_configured' = st.configured
        /\ m_recording' = st.recording
        /\ ev_recording' = st.eventRecording
        /\ fr_writingToDisk' = st.frameWriting
        /\ h_call' = CallRecord("stopRecording", << >>, st)
        /\ UNCHANGED notManager

ManagerCloseDevices ==
    LET st == CloseDevicesStep(CallState)
    IN  /\ m_configured' = st.configured
        /\ m_recording' = st.recording
        /\ ev_recording' = st.eventRecording
        /\ fr_writingToDisk' = st.frameWriting
        /\ h_call' = CallRecord("closeDevices", << >>, st)
        /\ UNCHANGED notManager

NextManager ==
    \/ \E config \in Configs, outcome \in OpenOutcomes :
          ManagerConfigure(config, outcome)
    \/ \E outcome \in StartOutcomes : ManagerStartRecording(outcome)
    \/ \E config \in Configs, openOutcome \in OpenOutcomes,
          startOutcome \in StartOutcomes :
          ManagerStartRecordingWithConfig(config, openOutcome, startOutcome)
    \/ ManagerStopRecording
    \/ ManagerCloseDevices

Init ==
    /\ InitCapture /\ InitCache /\ InitBuffer /\ InitStream /\ InitLoader
    /\ InitManager

SpecCapture == Init /\ [][NextCapture]_vars

SpecCache == Init /\ [][NextCache]_vars

SpecBuffer == Init /\ [][NextBuffer]_vars

SpecStream == Init /\ [][NextStream]_vars

SpecLoader == Init /\ [][NextLoader]_vars

SpecManager == Init /\ [][NextManager]_vars

\* The scheduling the threads of FrameCameraManager rely on: a thread that can
\* take a step takes it (WF), a thread that waits for the queue mutex gets it
\* if it is free again and again (SF).  The calls of startRecording and
\* stopRecording are the user's: no fairness.
FairCapture ==
    /\ WF_vars(StopRecordingNotify)
    /\ WF_vars(StopRecordingJoin)
    /\ WF_vars(WriterOuter)
    /\ SF_vars(WriterLock)
    /\ WF_vars(WriterSleep)
    /\ SF_vars(WriterWake)
    /\ WF_vars(WriterInner)
    /\ SF_vars(WriterImwrite)
    /\ \A d \in Devices : /\ WF_vars(AcqCapture(d))
                          /\ SF_vars(AcqPush(d))
                          /\ WF_vars(AcqPushAfterPop(d))

SpecCaptureFair == Init /\ [][NextCapture]_vars /\ FairCapture

\* The prefetch thread and the destructor, once entered, are scheduled;
\* steps waiting for m_frameMutex get it eventually.  getFrame and
\* setCurrentFrameIndex are started by the user: no fairness on the calls,
\* but a call that has started runs to its end.
FairCache ==
    /\ WF_vars(DestructorNotify)
    /\ WF_vars(DestructorJoin)
    /\ WF_vars(GetFrameGenerate)
    /\ WF_vars(GetFrameEvict)
    /\ WF_vars(GetFrameReturn)
    /\ WF_vars(SetIndexSignal)
    /\ WF_vars(PrefetchLock)
    /\ WF_vars(PrefetchSleep)
    /\ WF_vars(PrefetchWake)
    /\ WF_vars(PrefetchLoad)
    /\ SF_vars(PrefetchPrune)
    /\ WF_vars(PrefetchLoopTop)
    /\ SF_vars(PrefetchCheckCached)
    /\ SF_vars(PrefetchInsert)

SpecCacheFair == Init /\ [][NextCache]_vars /\ FairCache

(***************************************************************************)
(* Properties of the capture queue and the disk writer.                    *)
(***************************************************************************)
\* No acquisition worker is between the pop and the push of an overflow.
NoPushInProgress == \A d \in Devices : apc[d] # "push_after_pop"

\* The disk writer has removed no record from the queue so far.
WriterRemovedNone == h_handed = << >> /\ wpc # "imwrite"

\* stopRecording() has returned and no recording has been started since.
StopReturned == cpc = "idle" /\ ~m_writingToDisk /\ sessions > 0

StrictlyIncreasing(s) ==
    \A i \in 1 .. Len(s) - 1 : s[i].frameIndex < s[i + 1].frameIndex

\* C1: in every reachable state the capture queue holds at most
\* MAX_QUEUE_SIZE records.
C1_QueueBounded == Len(m_frameQueue) <= MAX_QUEUE_SIZE

\* C1 witness: an overflow has happened and the queue is at capacity.
C1_Witness == h_dropped # {} /\ Len(m_frameQueue) = MAX_QUEUE_SIZE

\* C2: while the disk writer has removed nothing, after every completed push
\* the queue is exactly the last MAX_QUEUE_SIZE records pushed, in arrival
\* order, and the records dropped are exactly the older ones.
C2_KeepsMostRecent ==
    (WriterRemovedNone /\ NoPushInProgress) =>
        /\ m_frameQueue = LastN(h_pushed, MAX_QUEUE_SIZE)
        /\ h_dropped = Range(h_pushed) \ Range(m_frameQueue)

\* C2 witness: more than MAX_QUEUE_SIZE records pushed, none removed.
C2_Witness ==
    /\ WriterRemovedNone
    /\ NoPushInProgress
    /\ Len(h_pushed) > MAX_QUEUE_SIZE

\* C3 (as claimed): the writer leaves only with the stop flag raised and the
\* queue seen empty, and once stopRecording() has returned every record that
\* was queued when the flag was raised has been handed to the image write.
C3_GracefulDrain ==
    /\ wpc = "finished" =>
          (~m_writingToDisk /\ h_exitSaw = "stopped_and_empty")
    /\ StopReturned => h_atStop \subseteq Range(h_handed)

\* C4: for each device the frames handed to the image write are in strictly
\* increasing frame-index order, which is the order of their enqueueing,
\* and none is handed over twice.
C4_PerDeviceOrder ==
    \A d \in Devices :
        /\ StrictlyIncreasing(SelectDevice(h_pushed, d))
        /\ StrictlyIncreasing(SelectDevice(h_handed, d))
        /\ Range(SelectDevice(h_handed, d)) \subseteq Range(h_pushed)

\* C4 witness: the writer has written two frames of one device while frames
\* of the other device were written in between or around them.
C4_Witness ==
    /\ \E d \in Devices : Len(SelectDevice(h_handed, d)) >= 2
    /\ \A d \in Devices : Len(SelectDevice(h_handed, d)) >= 1

\* C5 (as claimed), for runs in which no image write fails: once
\* stopRecording() has returned, every frame whose worker found recording
\* enabled was written exactly once or dropped by an overflow.
C5_NoLossButOverflow ==
    (StopReturned /\ h_failed = {}) =>
        \A f \in h_accepted :
            \/ Len(SelectSeq(h_handed, LAMBDA g : g = f)) = 1
            \/ f \in h_dropped

\* C6: the writer does not hold the queue mutex while it writes a file or
\* is blocked in the condition variable's wait, and a worker that holds the
\* mutex completes its push whatever the queue's size.
C6_PushNonBlocking ==
    /\ wpc \in { "imwrite", "sleeping", "woken" } => queueMutex # HeldByWriter
    /\ \A d \in Devices :
          /\ (apc[d] = "lock" /\ queueMutex = MutexFree) => ENABLED AcqPush(d)
          /\ apc[d] = "push_after_pop" => ENABLED AcqPushAfterPop(d)

\* C6 witness: a worker pushes into a full queue while the writer is writing
\* a file.
C6_Witness ==
    /\ wpc = "imwrite"
    /\ \E d \in Devices :
          /\ apc[d] = "push_after_pop"
          /\ queueMutex = HeldByAcq(d)

\* C24: every record whose write failed was logged by the writer, no record
\* is handed to cv::imwrite twice, and the writer leaves its loop only on
\* reading the flag cleared and the queue empty.
C24_WriteFailureLoggedAndSkipped ==
    /\ h_failed \subseteq h_logged
    /\ \A i, j \in 1 .. Len(h_handed) : h_handed[i] = h_handed[j] => i = j
    /\ wpc = "finished" => h_exitSaw = "stopped_and_empty"

\* C25: the record a push of device d discards at capacity is a record of
\* device d (the oldest one queued): no overflow of d discards a record of
\* another device.
C25_DropsOwnOldest ==
    [][ \A d \in Devices :
          (apc[d] = "lock" /\ apc'[d] = "push_after_pop")
             => Front(m_frameQueue).deviceId = d ]_vars

\* C14: every stopRecording() that has cleared the flag returns: the writer
\* wakes, drains and exits, and the join ends.
C14_StopRecordingTerminates ==
    (cpc = "stop_notify") ~> (cpc = "idle")

(***************************************************************************)
(* Properties of the EventCameraLoader frame cache.                        *)
(***************************************************************************)
\* The window around position pos: at most PREFETCH_AHEAD_FRAMES behind it
\* and at most 2 * PREFETCH_AHEAD_FRAMES ahead of it.
InWindow(k, pos) ==
    /\ k >= pos - PREFETCH_AHEAD_FRAMES
    /\ k <= pos + 2 * PREFETCH_AHEAD_FRAMES

\* C7: whenever m_frameMutex is not held, the frame cache holds at most
\* MAX_CACHE_SIZE entries.
C7_CacheBounded ==
    FrameMutexFree => Cardinality(m_frameCache) <= MAX_CACHE_SIZE

\* C7 witness: a getFrame insertion took the cache over capacity, an entry
\* was evicted, and the mutex is free again with the cache full.
C7_Witness ==
    /\ upc = "return"
    /\ h_evict # NoEvict
    /\ Cardinality(h_evict.keys) = MAX_CACHE_SIZE + 1
    /\ Cardinality(m_frameCache) = MAX_CACHE_SIZE

\* C8 (as claimed): a getFrame(i) that follows a getFrame(i), with index i
\* not erased from the cache in between, returns the same image and does
\* not generate.
C8_SecondCallSame ==
    (upc = "return" /\ h_prevCall.index = gIndex /\ ~h_removedSince) =>
        (gFrame = h_prevCall.image /\ ~gGenerated)

\* C9 (as claimed): the pruning pass of a restart erases exactly the entries
\* outside the window around the position the seek has set.
C9_PruneAroundSeekPosition ==
    h_prune # NoPrune =>
        /\ \A k \in h_prune.erased : ~InWindow(k, h_prune.seekTo)
        /\ \A k \in h_prune.kept : InWindow(k, h_prune.seekTo)

\* C9 (amended): the pruning pass of a restart erases exactly the entries
\* outside the window around the position the worker read from
\* m_currentFrameIndex when it started the pass.
C9_PruneAroundLoadedPosition ==
    h_prune # NoPrune =>
        /\ \A k \in h_prune.erased : ~InWindow(k, h_prune.around)
        /\ \A k \in h_prune.kept : InWindow(k, h_prune.around)

\* C9 witness: a pruning pass after a seek, around the seek's position, that
\* erased an entry and kept one.
C9_Witness ==
    /\ h_prune # NoPrune
    /\ h_prune.around = h_prune.seekTo
    /\ h_prune.erased # {}
    /\ h_prune.kept # {}

\* C10 (as claimed): the entry getFrame evicts is the one farthest from the
\* current playback index.
C10_EvictsFarthest ==
    h_evict # NoEvict =>
        \A j \in h_evict.keys :
            Abs(j - h_evict.current) <= Abs(h_evict.victim - h_evict.current)

\* C15: a destructor that has set m_stopPrefetch returns: the prefetch thread
\* leaves its wait or its pass and the join ends.
C15_DestructorTerminates ==
    (upc = "dtor_notify") ~> (upc = "destroyed")

\* C22: the frame of an index whose generation failed is not in the cache,
\* so that the next getFrame of that index generates again.
C22_FailedIndexNotCached ==
    \A e \in m_frameCache : e.image # "error"

(***************************************************************************)
(* Properties of the RecordingBuffer.                                      *)
(***************************************************************************)
Max(a, b) == IF a >= b THEN a ELSE b

\* RecordingBuffer::getBufferSize
GetBufferSize ==
    IF rb_currentMode = "Live"
    THEN Max(Len(rb_liveFrameBuffer), Len(rb_liveEventBuffer))
    ELSE 0

\* the buffer is stopped: inactive, no monitor thread, nothing buffered
Stopped ==
    /\ ~rb_active
    /\ rb_liveBufferThread = "none"
    /\ lpc = "none"
    /\ rb_liveFrameBuffer = << >>
    /\ rb_liveEventBuffer = << >>
    /\ rb_frameCache = {}

\* C11: a step that records a new mode, loader or manager, or that starts a
\* monitor thread, is taken from a stopped buffer: a call that found the
\* buffer active has completed stop() before.
C11_StopBeforeNewMode ==
    [][ ( \/ rb_currentMode' # rb_currentMode
          \/ rb_dataLoader' # rb_dataLoader
          \/ rb_recordingManager' # rb_recordingManager
          \/ (rb_liveBufferThread' = "running"
                /\ rb_liveBufferThread # "running") )
        => Stopped ]_vars

\* C11 witness: setPlaybackMode called on an active live buffer has stopped
\* it and recorded the playback mode.
C11_Witness ==
    /\ bpc = "activate"
    /\ bop.wasActive
    /\ bop.fromMode = "Live"
    /\ rb_currentMode = "Playback"

\* C12: when stop() returns, isActive() is false and getBufferSize() is 0;
\* a stop() that finds the buffer inactive changes no member.
C12_StopClearsState ==
    [][ /\ (bpc' = "return" /\ bop'.op = "stop")
            => (~rb_active' /\ GetBufferSize' = 0)
        /\ (bpc = "idle" /\ bop'.op = "stop" /\ ~rb_active)
            => UNCHANGED << rb_currentMode, rb_active, rb_dataLoader,
                            rb_recordingManager, rb_currentFrameIndex,
                            rb_currentFrameData, rb_frameCache,
                            rb_liveBufferThread, rb_stopBuffering,
                            rb_liveFrameBuffer, rb_liveEventBuffer >> ]_vars

\* C12 witness: stop() returns after it stopped an active live buffer whose
\* monitor thread had published a frame.
C12_Witness ==
    /\ bpc = "return"
    /\ bop.op = "stop"
    /\ bop.wasActive
    /\ bop.fromMode = "Live"
    /\ rb_currentFrameData.isValid

\* C13: a monitor thread is started only when none exists, and when stop()
\* returns (alone or inside a mode change) no monitor thread is left.
C13_NoThreadLeak ==
    [][ /\ (rb_liveBufferThread' = "running" /\ rb_liveBufferThread # "running")
            => (rb_liveBufferThread = "none" /\ lpc = "none")
        /\ (bpc' = "establish" \/ (bpc' = "return" /\ bop'.op = "stop"))
            => (rb_liveBufferThread' = "none" /\ lpc' = "none") ]_vars

\* C13 witness: a second live session is being started after the monitor
\* thread of the first was joined.
C13_Witness ==
    /\ bpc = "activate"
    /\ bop.op = "setLive"
    /\ bop.wasActive
    /\ bop.fromMode = "Live"
    /\ rb_liveBufferThread = "running"

\* RecordingBuffer::getLatestLiveData
GetLatestLiveData ==
    IF rb_currentMode = "Live" THEN rb_currentFrameData ELSE DefaultUnified

\* the monitor thread has completed a tick during which every getter found
\* the buffer active, and has not begun the next one
TickPublished == lpc = "loop" /\ h_tick.done /\ h_tick.active

Synthesized ==
    { u \in { rb_currentFrameData, unified } : u # DefaultUnified }

\* C17: in every synthesized UnifiedFrameData a frame slot is valid exactly
\* when its cv::Mat is non-empty and an event slot exactly when its QImage
\* is non-null; the record itself is valid whatever its slots hold.
C17_SlotValidIffImage ==
    \A u \in Synthesized :
        /\ u.isValid
        /\ \A i \in 1 .. Len(u.frameData) :
              u.frameData[i].isValid <=> (u.frameData[i].image # EmptyMat)
        /\ \A i \in 1 .. Len(u.eventData) :
              u.eventData[i].isValid <=> (u.eventData[i].image # NullImage)

\* C17 witness: a playback record for an index at which camera 0 has a frame
\* and camera 1 has none: one valid and one invalid slot in a valid record.
C17_Witness ==
    /\ rb_currentMode = "Playback"
    /\ rb_currentFrameData.isValid
    /\ Len(rb_currentFrameData.frameData) = 2
    /\ rb_currentFrameData.frameData[1].isValid
    /\ ~rb_currentFrameData.frameData[2].isValid
    /\ rb_currentFrameData.frameData[2].image = EmptyMat

\* C18: setCurrentFrameIndex(i) in Playback mode passes i to the loader (which
\* forwards it to the event loaders once its data is ready) before the
\* record is synthesized, synthesizes the record for i before
\* frameDataUpdated(i) is emitted, and returns with getCurrentFrameIndex()
\* and getCurrentFrameData().frameIndex equal to i.
C18_SetIndexOrder ==
    [][ /\ (bpc = "sci_notify" /\ bpc' = "sci_synth")
            => /\ (rb_dataLoader # "null" /\ ld_dataReady)
                      => ld_notified' = bop.index
               /\ rb_currentFrameData' = rb_currentFrameData
               /\ h_emitted' = NoEmit
        /\ (bpc = "sci_synth" /\ bpc' = "sci_emit")
            => /\ rb_currentFrameData'.frameIndex = bop.index
               /\ h_emitted' = NoEmit
        /\ (h_emitted = NoEmit /\ h_emitted' # NoEmit)
            => /\ bpc = "sci_emit"
               /\ h_emitted' = bop.index
               /\ rb_currentFrameData.frameIndex = bop.index
        /\ (bpc = "return" /\ bpc' = "idle" /\ bop.op = "setIndex"
               /\ rb_currentMode = "Playback")
            => /\ h_emitted = bop.index
               /\ rb_currentFrameIndex' = bop.index
               /\ rb_currentFrameData'.frameIndex = bop.index ]_vars

\* C18 witness: setCurrentFrameIndex(2) on an active playback buffer is
\* about to return after the hint reached the event loaders, the record for
\* index 2 was synthesized and frameDataUpdated(2) was emitted.
C18_Witness ==
    /\ bpc = "return"
    /\ bop.op = "setIndex"
    /\ bop.index = 2
    /\ rb_active
    /\ rb_currentMode = "Playback"
    /\ ld_notified = 2
    /\ rb_currentFrameData.frameIndex = 2
    /\ h_emitted = 2

\* mutant of IsBufferHealthy: a full buffer counts as healthy
IsBufferHealthy_Inclusive ==
    IF rb_currentMode = "Live"
    THEN GetBufferSize >= TARGET_BUFFER_SIZE
            /\ GetBufferSize <= MAX_LIVE_BUFFER_SIZE
    ELSE rb_active

\* RecordingBuffer::isBufferHealthy
IsBufferHealthy ==
    IF rb_currentMode = "Live"
    THEN GetBufferSize >= TARGET_BUFFER_SIZE
            /\ GetBufferSize < MAX_LIVE_BUFFER_SIZE
    ELSE rb_active

\* the occupancy lies in [TARGET_BUFFER_SIZE, MAX_LIVE_BUFFER_SIZE)
OccupancyInRange ==
    GetBufferSize \in TARGET_BUFFER_SIZE .. (MAX_LIVE_BUFFER_SIZE - 1)

RECURSIVE UpTo(_)
\* the frame indices 0 .. n-1 in order
UpTo(n) == IF n = 0 THEN << >> ELSE Append(UpTo(n - 1), n - 1)

\* the frames camera c's worker has generated and handed to the buffer in
\* this streaming session, in generation order (the frame it holds between
\* the counter increment and the lock is not handed over yet)
HandedOver(c) ==
    UpTo(m_eventFrameCounters[c] - (IF spc[c] = "push" THEN 1 ELSE 0))

\* C20: whenever a camera's buffer mutex is free, its buffer holds at most
\* MAX_EVENT_BUFFER_SIZE frames, and they are the most recent frames the
\* worker has handed over, in generation order.
C20_EventBufferRecent ==
    \A c \in EventCams :
        m_eventBufferMutexes[c] = "free" =>
            /\ Len(m_liveEventBuffers[c]) <= MAX_EVENT_BUFFER_SIZE
            /\ m_liveEventBuffers[c] =
                  LastN(HandedOver(c), MAX_EVENT_BUFFER_SIZE)

\* C20 witness: a worker has overflowed its buffer more than once and
\* released the mutex: the buffer is full and its oldest frames are gone.
C20_Witness ==
    \E c \in EventCams :
        /\ m_liveStreaming
        /\ spc[c] = "loop"
        /\ m_eventBufferMutexes[c] = "free"
        /\ m_eventFrameCounters[c] = MAX_EVENT_BUFFER_SIZE + 2
        /\ Len(m_liveEventBuffers[c]) = MAX_EVENT_BUFFER_SIZE
        /\ m_liveEventBuffers[c][1] = 2

\* C21: while camera c's worker is at the top of its loop with an empty
\* event window, no step emits a frame of c: the camera's counter and ring
\* buffer stay as they are and the worker stays at the top of its loop.
C21_EmptyWindowSkipped ==
    [][ \A c \in EventCams :
          (spc[c] = "loop" /\ m_liveStreaming /\ eventBuffer[c] = 0)
             => /\ m_eventFrameCounters'[c] = m_eventFrameCounters[c]
                /\ m_liveEventBuffers'[c] = m_liveEventBuffers[c]
                /\ spc'[c] = "loop" ]_vars

\* C21 witness: after a frame was generated and buffered, a tick found the
\* window empty and was skipped.
C21_Witness ==
    \E c \in EventCams :
        /\ m_liveStreaming
        /\ h_lastTick[c] = "skipped"
        /\ eventBuffer[c] = 0
        /\ m_eventFrameCounters[c] = 1
        /\ m_liveEventBuffers[c] = << 0 >>

\* C23: an error raised in an iteration of a worker loop does not end the
\* loop: the live accumulation worker of a camera leaves its loop only when
\* its running flag m_liveStreaming is cleared.
C23_ErrorDoesNotEndLoop ==
    \A c \in EventCams : spc[c] = "finished" => ~m_liveStreaming

(***************************************************************************)
(* RecordingDataLoader properties                                          *)
(***************************************************************************)
\* the load under way or finished has no usable event source for camera
EventSourceInvalid(camera) ==
    /\ loads >= 1
    /\ loadedDir.kind = "present"
    /\ loadedDir.events[camera] \in { "absent", "bad" }

\* the worker of the current load has run to its end, its completion
\* closure has been run, and no newer loadRecording is under way
LoadSettled ==
    /\ loads >= 1
    /\ lwpc = "done"
    /\ lmpc = "idle"
    /\ ~m_abortLoading
    /\ eventLoopQueue = << >>

\* C26: a camera whose event file is absent or whose loader failed to
\* initialise is invalid for the whole session: getEventCameraFrame finds
\* nothing to serve for it and the last call for it returned an empty image,
\* its entry is never valid, holds no cached frame and got no prefetch
\* hint; and the load still settles with the data ready and with every
\* camera that has a good event file served.
C26_InvalidEventCameraServesNothing ==
    /\ \A camera \in Cams :
          EventSourceInvalid(camera) =>
             /\ ~EventCamServed(camera)
             /\ h_eventFrame.camera = camera
                   => h_eventFrame.image = NullImage
             /\ camera < Len(m_data.eventCams) =>
                   /\ ~m_data.eventCams[camera + 1].isValid
                   /\ m_data.eventCams[camera + 1].cached = {}
                   /\ m_data.eventCams[camera + 1].hint = -1
    /\ (LoadSettled /\ loadedDir.kind = "present") =>
          /\ m_dataReady
          /\ h_loadingFinished = "true"
          /\ \A camera \in Cams :
                loadedDir.events[camera] = "ok" => EventCamServed(camera)

\* C26 witness: camera 0 loaded, was read and hinted; camera 1's loader
\* failed and the last getEventCameraFrame, for camera 1, returned nothing.
C26_Witness ==
    /\ LoadSettled
    /\ m_dataReady
    /\ loadedDir.events[0] = "ok"
    /\ loadedDir.events[1] = "bad"
    /\ m_data.eventCams[1].cached # {}
    /\ m_data.eventCams[1].hint # -1
    /\ m_data.eventCams[2].hasLoader
    /\ m_data.eventCams[2].cached = {}
    /\ h_eventFrame = [ camera |-> 1, image |-> NullImage ]

\* C29: once the load of a directory that does not exist has settled,
\* loadingFinished has been emitted and isDataReady() is false.
C29_MissingDirectoryNotReady ==
    (LoadSettled /\ loadedDir.kind = "missing") =>
        /\ h_loadingFinished # "none"
        /\ ~m_dataReady

\* the first half of C29 alone: the load of a missing directory finishes
MissingDirectoryFinishes ==
    (LoadSettled /\ loadedDir.kind = "missing") => h_loadingFinished # "none"

\* image_files of one camera is in ascending order of extract_frame_index
NumericallyAscending(files) ==
    \A i, j \in DOMAIN files :
        i < j => extract_frame_index(files[i]) <= extract_frame_index(files[j])

\* C30: after the frame cameras are loaded every image_files list ascends
\* in the numeric index of its names, and the four files frame_10.jpg,
\* frame_2.jpg, frame_1.jpg, frame_02.jpg are listed as frame_1.jpg,
\* frame_2.jpg, frame_02.jpg, frame_10.jpg.
C30_FrameFilesOrdered ==
    lwpc \in { "events", "finish", "done" } =>
        \A i \in DOMAIN m_data.frameCams :
            LET files == m_data.frameCams[i]
                f == FrameFiles
            IN  /\ NumericallyAscending(files)
                /\ Range(files) = { f.f1, f.f2, f.f02, f.f10 }
                      => files = << f.f1, f.f2, f.f02, f.f10 >>

\* what the code does with those four files: the tie at index 2 goes to
\* the lexicographically smaller name, frame_02.jpg
FrameFilesOrderedAsSorted ==
    lwpc \in { "events", "finish", "done" } =>
        \A i \in DOMAIN m_data.frameCams :
            LET files == m_data.frameCams[i]
                f == FrameFiles
            IN  /\ NumericallyAscending(files)
                /\ Range(files) = { f.f1, f.f2, f.f02, f.f10 }
                      => files = << f.f1, f.f02, f.f2, f.f10 >>

(***************************************************************************)
(* RecordingManager properties                                             *)
(***************************************************************************)
\* a bias vector was given and its length is not the number of serials
BiasLengthDiffers(config) ==
    config.biasLen # 0 /\ config.biasLen # config.serials

\* the configuration errors as C27 words them
ClaimedConfigError(config) ==
    config.eventFileFormat = "badfmt" \/ BiasLengthDiffers(config)

\* the same with at least one serial listed
ListedConfigError(config) ==
    \/ config.eventFileFormat = "badfmt"
    \/ config.serials # 0 /\ BiasLengthDiffers(config)

StartCalls == { "event.startRecording", "frame.startRecording" }

OpenCalls == { "frame.openAndSetupDevices", "event.openAndSetupDevices" }

\* The last call was configure(config) or startRecording(dir, config) on a
\* manager that was not recording, with a config that IsError counts as a
\* configuration error: it returned false, isConfigured() and isRecording()
\* are false and no camera manager's startRecording was called; and with an
\* unsupported file format it opened no device.
ConfigErrorReported(IsError(_)) ==
    (h_call.op \in { "configure", "startRecordingWithConfig" }
       /\ ~h_call.recordingBefore) =>
        /\ IsError(h_call.config) =>
              /\ ~h_call.ret
              /\ ~m_configured
              /\ ~m_recording
              /\ Range(h_call.calls) \cap StartCalls = {}
        /\ h_call.config.eventFileFormat = "badfmt" =>
              Range(h_call.calls) \cap OpenCalls = {}

C28_ConfigureBeforeRecord ==
    h_call.op = "startRecording" =>
        /\ h_call.ret => (h_call.configuredBefore /\ ~h_call.recordingBefore)
        /\ ~(h_call.configuredBefore /\ ~h_call.recordingBefore) =>
              /\ ~h_call.ret
              /\ h_call.calls = << >>
              /\ m_recording = h_call.recordingBefore

\* C28 witness: startRecording(outputDirectory) was refused on a manager
\* that a failed configure had left unconfigured.
C28_Witness ==
    /\ h_call.op = "startRecording"
    /\ ~h_call.configuredBefore
    /\ ~h_call.recordingBefore
    /\ ~h_call.ret
    /\ h_call.calls = << >>
    /\ ~m_recording

(***************************************************************************)
(* Properties of the later sections                                        *)
(***************************************************************************)
\* C31: once a seek has raised m_prefetchRestart, the prefetch worker begins
\* no further frame of the pass it is in (at the head of the loop it leaves
\* the pass instead of going on to a frame); the request it then takes makes
\* it prune, and the pass that follows starts at the position of the seek.
C31_SeekAbandonsPass ==
    [][ /\ (m_prefetchRestart /\ ppc = "loop") => ppc' # "check_cached"
        /\ (m_prefetchRestart /\ ppc \in { "top", "woken" } /\ ppc' = "load")
              => shouldRestart'
        /\ (shouldRestart /\ ppc = "load" /\ ppc' # "load")
              => (ppc' = "prune" /\ currentFrame' = m_currentFrameIndex)
        /\ (ppc = "prune" /\ ppc' # "prune") => (ppc' = "loop" /\ pi' = 1)
      ]_vars

\* C31 witness: the worker is at the head of the loop, one frame into a pass
\* around position 0, and a seek to another position has been signalled.
C31_Witness ==
    /\ ppc = "loop"
    /\ pi > 1
    /\ m_prefetchRestart
    /\ h_seekTo = m_currentFrameIndex
    /\ currentFrame # m_currentFrameIndex

\* the calls of one manager call that are in names, in the order made
CallsAmong(names) == SelectSeq(h_call.calls, LAMBDA c : c \in names)

SessionStartCalls ==
    << "event.startRecording", "frame.startRecording",
       "event.startLiveStreaming" >>

SessionStopCalls ==
    << "frame.stopRecording", "event.stopRecording",
       "event.stopLiveStreaming" >>

StartOps == { "startRecording", "startRecordingWithConfig" }

C37_FailedStartLeavesNothingRecording ==
    (h_call.op \in StartOps /\ ~h_call.ret /\ ~m_recording) =>
        (~ev_recording /\ ~fr_writingToDisk)

\* C33: the events an emitted frame's clear() removes from the accumulation
\* buffer are the events that frame was drawn from: none was added by the
\* callback between generateEventFrame and clear().
C33_NoEventLostAtClear ==
    \A c \in EventCams :
        h_window[c].cleared \in { -1, h_window[c].drawn }

\* C35: a getLatestEventFrame call that is between its lock_guard and its
\* return holds a mutex the manager still owns: stopLiveStreaming has not
\* cleared m_eventBufferMutexes and m_liveEventBuffers under it.
C35_ReaderHoldsLiveMutex ==
    readerAt # -1 => m_eventBufferMutexes[readerAt] = "reader"

C36_ReadyMeansLastLoadDone ==
    (lmpc = "idle" /\ m_dataReady) =>
        (lwpc = "done" /\ h_loadingFinished = "true")

\* C38: between calls, a buffer that is active in Live mode has its monitor
\* thread inside the loop of liveBufferWorker.
C38_ActiveLiveHasMonitor ==
    (bpc = "idle" /\ rb_active /\ rb_currentMode = "Live") =>
        (rb_liveBufferThread = "running" /\ lpc # "none")

\* C39: the entry that a getFrame call's over-capacity eviction erases is
\* not the entry the same call has just inserted.
C39_EvictionSparesInserted ==
    (upc = "return" /\ gGenerated) => h_evict.victim # gIndex

\* C40: the frame difference updateFPS computes is the true difference of
\* the current frame index and the recorded earlier count: the unsigned
\* subtraction has not wrapped around.
C40_FrameDiffDoesNotWrap ==
    h_tick.fps.frameDiff = h_tick.fps.current - h_tick.fps.last

====
